---- MODULE Spec2Model ----
(***************************************************************************)
(* Model of the AMDGPU/KFD checkpoint-restore plugin (bucket + private     *)
(* data design): the primary dump call, the primary restore call, and the  *)
(* per-GPU buffer transfer workers they spawn.                             *)
(*                                                                         *)
(* The coordinator is a program counter (pc) walking the stages of         *)
(* amdgpu_plugin_dump_file / amdgpu_plugin_restore_file; every worker is   *)
(* a record in thr walking dump_bo_contents / restore_bo_contents.  The    *)
(* environment (driver ioctls, libdrm, allocation, file I/O) decides the   *)
(* outcome of each step by a nondeterministic choice.                      *)
(***************************************************************************)
EXTENDS Integers, Sequences, FiniteSets, TLC

\* ------------------------------------------------------------------ bounds
MaxGpus == 2       \* checkpoint-side GPUs
MaxDestGpus == 2   \* restore-side (local) GPUs
MaxBos == 1        \* buffer objects of the process

VARIABLES
    scn,              \* the call under way: mode, driver object counts, buffers
    pc,               \* coordinator position
    k,                \* coordinator loop index (spawn / join loops)
    ret,              \* coordinator's ret variable
    retval,           \* value returned to the orchestrator
    log,              \* steps the coordinator has performed, in order
    ioctls,           \* driver ioctls issued, in order
    thr,              \* thread_datas[]: one record per worker
    bo_buckets,       \* struct kfd_criu_bo_bucket[] handed to the workers
    bo_entries,       \* e->bo_entries[]
    xfer,             \* per buffer: the transfers the workers went through
    src_topology,     \* checkpoint topology
    dest_topology,    \* local topology at restore
    checkpoint_maps,  \* actual gpu id -> user gpu id (dump)
    restore_maps,     \* user gpu id -> actual gpu id (restore)
    drm_open,         \* gpu ids whose render device handle is cached open
    stageFail,        \* stages inside which some step failed
    stageRet,         \* value each finished stage returned
    unit,             \* a routine examined on its own: its inputs and results
    images,           \* image files written by the call, in order
    held              \* buffers and handles the call obtained and still holds

vars == <<scn, pc, k, ret, retval, log, ioctls, thr, bo_buckets, bo_entries,
          xfer, src_topology, dest_topology, checkpoint_maps,
          restore_maps, drm_open, stageFail, stageRet, unit, images, held>>

\* ------------------------------------------------------------- data domain
BoFlagChoices == { {"VRAM"}, {"GTT", "PUBLIC"}, {"DOORBELL"} }
FwVersions == {1, 2}

\* render minor of the i-th GPU of a host (/dev/dri/renderD128 is the first)
RenderMinor(i) == 127 + i

CpuNode == [gpu_id |-> 0, fw_version |-> 0, drm_render_minor |-> 0]
GpuNode(id, fw, minor) ==
    [gpu_id |-> id, fw_version |-> fw, drm_render_minor |-> minor]

\* user-visible gpu id of the i-th checkpoint GPU, actual gpu id of the
\* i-th GPU of the local host
UserGpuId(i) == 10 + i
LocalGpuId(i) == 20 + i

NODE_IS_GPU(node) == node.gpu_id # 0

RECURSIVE SelectGpus(_)
SelectGpus(nodes) ==
    IF nodes = <<>> THEN <<>>
    ELSE IF NODE_IS_GPU(Head(nodes)) THEN <<Head(nodes)>> \o SelectGpus(Tail(nodes))
    ELSE SelectGpus(Tail(nodes))

\* lookup of the index-th GPU of a topology; <<>> stands for NULL
sys_get_node_by_index(sys, index) ==
    LET gpus == SelectGpus(sys) IN
    IF index + 1 <= Len(gpus) THEN <<gpus[index + 1]>> ELSE <<>>

sys_get_node_by_render_minor(sys, minor) ==
    LET hits == {i \in 1..Len(sys) :
                    NODE_IS_GPU(sys[i]) /\ sys[i].drm_render_minor = minor}
    IN IF hits = {} THEN <<>> ELSE <<sys[CHOOSE i \in hits : \A j \in hits : i <= j]>>

sys_get_node_by_gpu_id(sys, gpu_id) ==
    LET hits == {i \in 1..Len(sys) : sys[i].gpu_id = gpu_id} IN
    IF hits = {} THEN <<>> ELSE <<sys[CHOOSE i \in hits : \A j \in hits : i <= j]>>

\* device id map: a function from the known id to the mapped id
EmptyMap == [x \in {} |-> 0]
maps_add_gpu_entry(maps, actual, user) ==
    [x \in (DOMAIN maps) \cup {actual} |-> IF x = actual THEN user ELSE maps[x]]
maps_get_dest_gpu(maps, id) == IF id \in DOMAIN maps THEN maps[id] ELSE 0


\* ------------------------------------------------- topology matcher (4.3)
kfd_fw_version_check == TRUE

\* the six compatibility predicates, named after the node property compared
CheckNames ==
    {"fw_version", "sdma_fw_version", "caches_count", "num_gws", "vram_size",
     "numa"}

\* variant: every predicate is enforced whatever the toggles say
Compatible_AllChecks(src, dest, checks) ==
    /\ \A c \in CheckNames \ {"vram_size"} : src[c] = dest[c]
    /\ src.vram_size <= dest.vram_size

\* checks is the set of enabled predicates: identical property, except
\* VRAM size, which has to be identical or sufficient
Compatible(src, dest, checks) ==
    \A c \in checks :
       IF c = "vram_size" THEN src.vram_size <= dest.vram_size
       ELSE src[c] = dest[c]

\* first fit in topology order; a matched destination GPU is not reused
RECURSIVE MatchFrom(_, _, _, _, _)
MatchFrom(srcGpus, destGpus, i, maps, checks) ==
    IF i > Len(srcGpus) THEN [ret |-> 0, maps |-> maps]
    ELSE LET used == {maps[x] : x \in DOMAIN maps}
             cands == {j \in 1..Len(destGpus) :
                          /\ destGpus[j].gpu_id \notin used
                          /\ Compatible(srcGpus[i], destGpus[j], checks)}
         IN IF cands = {} THEN [ret |-> -19, maps |-> EmptyMap]
            ELSE LET j == CHOOSE c \in cands : \A d \in cands : c <= d
                 IN MatchFrom(srcGpus, destGpus, i + 1,
                              maps_add_gpu_entry(maps, srcGpus[i].gpu_id,
                                                 destGpus[j].gpu_id), checks)

set_restore_gpu_maps(src_sys, dest_sys, checks) ==
    MatchFrom(SelectGpus(src_sys), SelectGpus(dest_sys), 1, EmptyMap, checks)

\* ----------------------------------------------------------- sdma_copy_bo
\* Steps of sdma_copy_bo that can fail, in program order.  "none" is the
\* run in which every step succeeds.
SdmaDirectFaults == {"query_gpu_info", "src_alloc", "src_bo"}
SdmaPreSubmitFaults ==
    SdmaDirectFaults \cup
    {"src_va", "src_map", "dest_prep", "dest_va", "dest_map", "ib_alloc",
     "bo_list", "ctx", "submit"}

\* the cleanup calls whose result is assigned to err, in program order
CleanupCalls == <<"dest_unmap", "dest_va_free", "dest_bo_free",
                  "src_unmap", "src_va_free", "src_bo_free">>

\* index in CleanupCalls of the first cleanup call run after the goto
FirstCleanup(fault) ==
    CASE fault = "src_va" -> 6
      [] fault = "src_map" -> 5
      [] fault = "dest_prep" -> 4
      [] fault = "dest_va" -> 3
      [] fault = "dest_map" -> 2
      [] OTHER -> 1

\* value of err where the fault is detected
FaultErr(type, fault) ==
    CASE fault = "none" -> 0
      [] fault = "query_gpu_info" -> -22
      [] fault = "src_alloc" -> -12
      [] fault = "src_bo" -> -14
      [] fault = "not_expired" -> -16
      [] OTHER -> -1

\* err after the cleanup calls c..6; cleanFail names the call that fails
RECURSIVE RunCleanup(_, _, _)
RunCleanup(c, err, cleanFail) ==
    IF c > Len(CleanupCalls) THEN err
    ELSE RunCleanup(c + 1, IF CleanupCalls[c] = cleanFail THEN -22 ELSE 0,
                    cleanFail)

sdma_copy_bo(type, fault, cleanFail) ==
    [attempted |-> TRUE,
     failed |-> fault # "none",
     copied |-> fault = "none",
     ret |-> IF fault \in SdmaDirectFaults THEN FaultErr(type, fault)
             ELSE RunCleanup(FirstCleanup(fault), FaultErr(type, fault),
                             cleanFail)]

NoSdma == [attempted |-> FALSE, failed |-> FALSE, copied |-> FALSE, ret |-> 0]

\* the timeout handed to amdgpu_cs_query_fence_status
FenceTimeout == "AMDGPU_TIMEOUT_INFINITE"

\* does the fence query return to its caller, given what the hardware does
QueryFenceReturns(hw, timeout) ==
    hw \in {"signal", "error"} \/ timeout # "AMDGPU_TIMEOUT_INFINITE"

QueryFenceFault(hw) ==
    CASE hw = "signal" -> "none"
      [] hw = "error" -> "fence_err"
      [] OTHER -> "not_expired"


\* ------------------------------------------------------------ scenarios
RECURSIVE SeqsUpTo(_, _)
SeqsUpTo(S, n) ==
    IF n = 0 THEN {<<>>}
    ELSE LET shorter == SeqsUpTo(S, n - 1)
         IN shorter \cup {Append(q, x) : q \in {r \in shorter : Len(r) = n - 1}, x \in S}

\* sizes of the buffers of the process, in bytes
BoSizes == {2}

\* the buckets the driver reports for the buffers of the GPUs gpuIds
BoRecords(gpuIds) == [gpu_id : gpuIds, alloc_flags : BoFlagChoices, size : BoSizes]

\* a payload for VRAM buffers only
allocate_bo_entries_VramOnly(bucket) ==
    IF "VRAM" \in bucket.alloc_flags THEN bucket.size ELSE 0

\* length of the raw-data payload allocate_bo_entries gives the record of a
\* bucket: the buffer size when the VRAM or GTT flag is set, no payload
\* otherwise
allocate_bo_entries(bucket) ==
    IF bucket.alloc_flags \cap {"VRAM", "GTT"} # {} THEN bucket.size ELSE 0

\* the record dump_bos stores for a bucket whose gpu id translates to user_id
BoEntry(bucket, user_id) ==
    [gpu_id |-> user_id, alloc_flags |-> bucket.alloc_flags,
     size |-> bucket.size, rawdata_len |-> allocate_bo_entries(bucket)]

\* the records of an image for buffers of the GPUs gpuIds
ImageBoEntries(gpuIds) == {BoEntry(b, b.gpu_id) : b \in BoRecords(gpuIds)}

\* a primary dump call on a host with n GPUs; the process was first launched
\* elsewhere, so the driver reports user ids that differ from the actual ones
\* (the process has a device on the GPUs in used, the others are hidden from it)
DeviceBuckets(n, used) ==
    LET idx == SelectSeq([i \in 1..n |-> i], LAMBDA i : i \in used)
    IN [j \in 1..Len(idx) |-> [actual_gpu_id |-> LocalGpuId(idx[j]),
                               user_gpu_id |-> UserGpuId(idx[j])]]

DumpScenarios ==
    UNION { UNION { [mode : {"dump"},
                     topo : {<<CpuNode>> \o
                             [i \in 1..n |->
                                 GpuNode(LocalGpuId(i), 1, RenderMinor(i))]},
                     devs : {DeviceBuckets(n, used)},
                     bos : SeqsUpTo(BoRecords({LocalGpuId(i) : i \in used}),
                                    MaxBos)] :
                    used \in (SUBSET (1..n)) \ {{}} } :
            n \in 1..MaxGpus }

\* a primary restore call: an image with n GPUs restored on a host with m GPUs
RestoreScenarios ==
    UNION { [mode : {"restore"},
             topo : {<<CpuNode>> \o
                     [j \in 1..m |-> GpuNode(LocalGpuId(j), fw[j], RenderMinor(j))] :
                        fw \in [1..m -> FwVersions]},
             devs : {<<CpuNode>> \o
                     [i \in 1..n |-> GpuNode(UserGpuId(i), 1, RenderMinor(i))]},
             bos : SeqsUpTo(ImageBoEntries({UserGpuId(i) : i \in 1..n}), MaxBos),
             num_of_queues : 0..1,
             num_of_events : 0..1] :
          n \in 1..MaxGpus, m \in 1..MaxDestGpus }

\* dump_devices fills checkpoint_maps from the device buckets and fails
\* when a GPU of the topology has no entry in them
RECURSIVE AddDeviceBuckets_Swapped(_, _)
AddDeviceBuckets_Swapped(maps, buckets) ==
    IF buckets = <<>> THEN maps
    ELSE AddDeviceBuckets_Swapped(
             maps_add_gpu_entry(maps, Head(buckets).user_gpu_id,
                                Head(buckets).actual_gpu_id),
             Tail(buckets))

RECURSIVE AddDeviceBuckets(_, _)
AddDeviceBuckets(maps, buckets) ==
    IF buckets = <<>> THEN maps
    ELSE AddDeviceBuckets(maps_add_gpu_entry(maps, Head(buckets).actual_gpu_id,
                                             Head(buckets).user_gpu_id),
                          Tail(buckets))

\* a dump call for a render-device file with the given minor; primary tells
\* whether the dump call for the control device ran before and filled
\* checkpoint_maps
RenderDumpScenarios ==
    UNION { UNION { [mode : {"dump_render"},
                     topo : {<<CpuNode>> \o
                             [i \in 1..n |->
                                 GpuNode(LocalGpuId(i), 1, RenderMinor(i))]},
                     devs : {DeviceBuckets(n, used)},
                     bos : {<<>>},
                     minor : {RenderMinor(i) : i \in 1..(n + 1)},
                     primary : BOOLEAN] :
                    used \in (SUBSET (1..n)) \ {{}} } :
            n \in 1..MaxGpus }

\* a restore call for a render-node image that stores gpu_id; primary tells
\* whether the restore call for the control device ran before and left
\* dest_topology and restore_maps
RenderRestoreScenarios ==
    UNION { [mode : {"restore_render"},
             topo : {<<CpuNode>> \o
                     [j \in 1..m |-> GpuNode(LocalGpuId(j), fw[j], RenderMinor(j))] :
                        fw \in [1..m -> FwVersions]},
             devs : {<<CpuNode>> \o
                     [i \in 1..n |-> GpuNode(UserGpuId(i), 1, RenderMinor(i))]},
             bos : {<<>>},
             gpu_id : {UserGpuId(i) : i \in 1..(n + 1)},
             primary : BOOLEAN] :
          n \in 1..MaxGpus, m \in 1..MaxDestGpus }

\* no routine is examined on its own during a dump or restore call
NoUnit == [op |-> "none"]

Init ==
    /\ scn \in DumpScenarios \cup RestoreScenarios \cup RenderDumpScenarios
                \cup RenderRestoreScenarios
    /\ pc = "start"
    /\ k = 0
    /\ ret = 0
    /\ retval = 0
    /\ log = <<>>
    /\ ioctls = <<>>
    /\ thr = <<>>
    /\ bo_buckets = <<>>
    /\ bo_entries = IF scn.mode = "restore" THEN scn.bos ELSE <<>>
    /\ xfer = [i \in 1..Len(scn.bos) |-> <<>>]
    /\ src_topology = <<>>
    /\ dest_topology =
          IF scn.mode = "restore_render" /\ scn.primary THEN scn.topo ELSE <<>>
    /\ checkpoint_maps =
          IF scn.mode = "dump_render" /\ scn.primary
          THEN AddDeviceBuckets(EmptyMap, scn.devs) ELSE EmptyMap
    /\ restore_maps =
          IF scn.mode = "restore_render" /\ scn.primary
          THEN set_restore_gpu_maps(scn.devs, scn.topo,
                                    IF kfd_fw_version_check
                                    THEN {"fw_version"} ELSE {}).maps
          ELSE EmptyMap
    /\ drm_open = {}
    /\ stageFail = {}
    /\ stageRet = <<>>
    /\ unit = NoUnit
    /\ images = <<>>
    /\ held = {}

\* number of GPUs the call works with: info_args.total_devices at dump,
\* e->num_of_gpus of the image at restore
num_of_gpus ==
    IF scn.mode = "dump" THEN Len(scn.devs) ELSE Len(SelectGpus(scn.devs))

\* ------------------------------------------------- per-category routines
\* Outcome the environment picks for a routine that allocates its ioctl
\* arguments and calls the driver.
StageOutcomes == {"ok", "nomem", "ioctl_fail"}

\* ret of the routine and whether it reached the ioctl
StageResult(out) ==
    CASE out = "nomem" -> [ret |-> -12, ioctl |-> FALSE]
      [] out = "ioctl_fail" -> [ret |-> -1, ioctl |-> TRUE]
      [] OTHER -> [ret |-> 0, ioctl |-> TRUE]

Skipped == [ret |-> 0, ioctl |-> FALSE]

dump_process(out) == StageResult(out)

\* variant: the links that are not marked valid are stored as well
topology_to_devinfo_AllLinks(sys, maps) ==
    LET at(node, f) == IF f \in DOMAIN node THEN node[f] ELSE 0
        iolinks(node) == IF "iolinks" \in DOMAIN node THEN node.iolinks ELSE <<>>
        devinfo(node) ==
           [node_id |-> at(node, "id"),
            gpu_id |-> maps_get_dest_gpu(maps, node.gpu_id),
            cpu_cores_count |-> IF NODE_IS_GPU(node) THEN 0
                                ELSE at(node, "cpu_cores_count"),
            simd_count |-> IF NODE_IS_GPU(node) THEN at(node, "simd_count") ELSE 0,
            drm_render_minor |-> IF NODE_IS_GPU(node) THEN node.drm_render_minor
                                 ELSE 0,
            fw_version |-> IF NODE_IS_GPU(node) THEN node.fw_version ELSE 0,
            iolinks |-> [j \in 1..Len(iolinks(node)) |->
                            [type |-> iolinks(node)[j].type,
                             node_to_id |-> iolinks(node)[j].node_to_id]]]
    IN [ret |-> IF \E i \in 1..Len(sys) : NODE_IS_GPU(sys[i]) /\ devinfo(sys[i]).gpu_id = 0
                THEN -22 ELSE 0,
        entries |-> [i \in 1..Len(sys) |-> devinfo(sys[i])]]

\* variant: a GPU is stored under the gpu id the topology has for it
topology_to_devinfo_ActualIds(sys, maps) ==
    [ret |-> 0,
     entries |-> [i \in 1..Len(sys) |->
                     [topology_to_devinfo_AllLinks(sys, maps).entries[i] EXCEPT
                         !.gpu_id = sys[i].gpu_id]]]

\* topology_to_devinfo: the device records, one per node in list order, and
\* the return code.  The records come zeroed from allocate_device_entries;
\* the loop stops at the first GPU the map has no user gpu id for, with the
\* node id of that record already set.  simd_count, drm_render_minor and
\* fw_version stand for the 27 properties copied for a GPU.  A node of the
\* coordinator model has no id and no links (0 and none are stored).
topology_to_devinfo(sys, maps) ==
    LET at(node, f) == IF f \in DOMAIN node THEN node[f] ELSE 0
        iolinks(node) == IF "iolinks" \in DOMAIN node THEN node.iolinks ELSE <<>>
        zeroed == [node_id |-> 0, gpu_id |-> 0, cpu_cores_count |-> 0,
                   simd_count |-> 0, drm_render_minor |-> 0, fw_version |-> 0,
                   iolinks |-> <<>>]
        unmapped == {i \in 1..Len(sys) :
                        /\ NODE_IS_GPU(sys[i])
                        /\ maps_get_dest_gpu(maps, sys[i].gpu_id) = 0}
        stop == IF unmapped = {} THEN Len(sys) + 1
                ELSE CHOOSE i \in unmapped : \A j \in unmapped : i <= j
        valid(node) == SelectSeq(iolinks(node), LAMBDA l : l.valid)
        devinfo(node) ==
           IF NODE_IS_GPU(node)
           THEN [zeroed EXCEPT
                   !.node_id = at(node, "id"),
                   !.gpu_id = maps_get_dest_gpu(maps, node.gpu_id),
                   !.simd_count = at(node, "simd_count"),
                   !.drm_render_minor = node.drm_render_minor,
                   !.fw_version = node.fw_version]
           ELSE [zeroed EXCEPT
                   !.node_id = at(node, "id"),
                   !.cpu_cores_count = at(node, "cpu_cores_count")]
        links(node) ==
           IF at(node, "num_valid_iolinks") = 0 THEN <<>>
           ELSE [j \in 1..Len(valid(node)) |->
                    [type |-> valid(node)[j].type,
                     node_to_id |-> valid(node)[j].node_to_id]]
    IN [ret |-> IF unmapped = {} THEN 0 ELSE -22,
        entries |->
           [i \in 1..Len(sys) |->
               CASE i < stop -> [devinfo(sys[i]) EXCEPT !.iolinks = links(sys[i])]
                 [] i = stop -> [zeroed EXCEPT !.node_id = at(sys[i], "id")]
                 [] OTHER -> zeroed]]

dump_devices(out, sys, maps) ==
    IF out # "ok" THEN StageResult(out)
    ELSE [ret |-> topology_to_devinfo(sys, maps).ret, ioctl |-> TRUE]

dump_queues(total, out) == IF total = 0 THEN Skipped ELSE StageResult(out)
dump_events(total, out) == IF total = 0 THEN Skipped ELSE StageResult(out)

restore_process(out) == StageResult(out)
restore_queues(total, out) == IF total = 0 THEN Skipped ELSE StageResult(out)
restore_events(total, out) == IF total = 0 THEN Skipped ELSE StageResult(out)

\* -------------------------------------------------- coordinator helpers
\* the ioctl scratch buffer (args.objects) a per-category routine still
\* holds when it returns r: every routine frees it at its exit label, except
\* restore_process, whose exit label frees nothing; -ENOMEM is the result
\* of the failed allocation itself
ScratchLeft(mode, name, r) ==
    IF mode = "restore" /\ name = "process" /\ r # -12
    THEN {"restore_process args.objects"} ELSE {}

Ioctl(name, issued) == IF issued THEN Append(ioctls, name) ELSE ioctls

\* the stage "name" returned r: record it and continue at next or at exit
StageDone(name, r, failedInside, next, exit) ==
    /\ ret' = r
    /\ held' = held \cup ScratchLeft(scn.mode, name, r)
    /\ stageRet' = Append(stageRet, [stage |-> name, ret |-> r])
    /\ stageFail' = IF failedInside THEN stageFail \cup {name} ELSE stageFail
    /\ pc' = IF r # 0 THEN exit ELSE next

Return(v) ==
    /\ retval' = v
    /\ pc' = "done"

\* variant: the queue and event stages of the dump called in the other order
DumpNext_EventsFirst(stage) ==
    CASE stage = "pause" -> "d_info"
      [] stage = "info" -> "d_process"
      [] stage = "process" -> "d_devices"
      [] stage = "devices" -> "d_bos"
      [] stage = "bos" -> "d_events"
      [] stage = "events" -> "d_queues"
      [] stage = "queues" -> "d_shm"
      [] stage = "shm" -> "d_write"
      [] OTHER -> "d_exit"

\* the step amdgpu_plugin_dump_file takes once the named stage succeeded
DumpNext(stage) ==
    CASE stage = "pause" -> "d_info"
      [] stage = "info" -> "d_process"
      [] stage = "process" -> "d_devices"
      [] stage = "devices" -> "d_bos"
      [] stage = "bos" -> "d_queues"
      [] stage = "queues" -> "d_events"
      [] stage = "events" -> "d_shm"
      [] stage = "shm" -> "d_write"
      [] OTHER -> "d_exit"

\* the step amdgpu_plugin_restore_file takes once the named stage succeeded
RestoreNext(stage) ==
    CASE stage = "topology" -> "r_map"
      [] stage = "process" -> "r_devices"
      [] stage = "devices" -> "r_bos"
      [] stage = "bos" -> "r_queues"
      [] stage = "queues" -> "r_events"
      [] stage = "events" -> "r_shm"
      [] OTHER -> "r_exit"


\* render device handle of a GPU node: the cached one, or a fresh open that
\* the environment lets succeed or fail (open_drm_render_device: -EBADFD)
node_get_drm_render_device(node, opens) ==
    IF node.gpu_id \in drm_open \/ opens THEN 100 + node.gpu_id ELSE -77

ThreadData == [st |-> "unspawned", gpu_id |-> 0, drm_fd |-> 0, ret |-> 0,
               i |-> 0, hw |-> "none", h_dev |-> "unset"]

WorkerActive(w) == thr[w].st \in {"init", "scan", "fence"}

\* ------------------------------------------- amdgpu_plugin_dump_file
D_ParseTopology ==
    /\ scn.mode \in {"dump", "dump_render"} /\ pc = "start"
    /\ \E out \in {"ok", "stat_fail", "parse_fail"} :
          IF out = "stat_fail"
          THEN /\ Return(-1)
               /\ UNCHANGED <<log, src_topology>>
          ELSE /\ log' = Append(log, "parse")
               /\ IF out = "ok"
                  THEN /\ src_topology' = scn.topo
                       /\ pc' = "d_links"
                       /\ UNCHANGED retval
                  ELSE /\ Return(-1)
                       /\ UNCHANGED src_topology
    /\ UNCHANGED <<unit, images, held, scn, k, ret, ioctls, thr, bo_buckets, bo_entries, xfer,
                   dest_topology, checkpoint_maps, restore_maps, drm_open,
                   stageFail, stageRet>>

\* variant: every file is taken for the control device
AfterValidateLinks_AlwaysPrimary(mode) == "d_pause"

\* where the dump call goes once the topology is validated: the file is a
\* render device or the control device
AfterValidateLinks(mode) ==
    IF mode = "dump_render" THEN "d_render" ELSE "d_pause"

D_ValidateLinks ==
    /\ pc = "d_links"
    /\ log' = Append(log, "links")
    /\ \E ok \in BOOLEAN :
          IF ok
          THEN /\ pc' = AfterValidateLinks(scn.mode)
               /\ UNCHANGED retval
          ELSE Return(-1)
    /\ UNCHANGED <<unit, images, held, scn, k, ret, ioctls, thr, bo_buckets, bo_entries, xfer,
                   src_topology, dest_topology, checkpoint_maps, restore_maps,
                   drm_open, stageFail, stageRet>>

\* the branch of amdgpu_plugin_dump_file for a render-device file: look the
\* device up by its minor, translate its gpu id, write renderDXXX.<id>.img
D_RenderNode ==
    /\ pc = "d_render"
    /\ LET tp_node == sys_get_node_by_render_minor(src_topology, scn.minor)
           gpu_id == IF tp_node = <<>> THEN 0
                     ELSE maps_get_dest_gpu(checkpoint_maps, tp_node[1].gpu_id)
       IN IF tp_node = <<>> \/ gpu_id = 0
          THEN /\ Return(-19)
               /\ UNCHANGED <<log, images>>
          ELSE \E out \in {"ok", "nomem", "open_fails", "short"} :
                  /\ Return(CASE out = "nomem" -> -12 [] out = "open_fails" -> -13
                              [] out = "short" -> -5 [] OTHER -> 0)
                  /\ log' = IF out = "nomem" THEN log
                            ELSE log \o <<"encode", "write">>
                  /\ images' = IF out \in {"nomem", "open_fails"} THEN images
                               ELSE Append(images, [name |-> "renderDXXX",
                                                    gpu_id |-> gpu_id,
                                                    complete |-> out = "ok"])
    /\ UNCHANGED <<unit, held, scn, k, ret, ioctls, thr, bo_buckets, bo_entries,
                   xfer, src_topology, dest_topology, checkpoint_maps,
                   restore_maps, drm_open, stageFail, stageRet>>

\* pause_process(fd, true): a failure goes to the exit label
D_Pause ==
    /\ pc = "d_pause"
    /\ log' = Append(log, "pause")
    /\ ioctls' = Append(ioctls, "pause")
    /\ \E r \in {0, -1} : StageDone("pause", r, r # 0, DumpNext("pause"), "d_exit")
    /\ UNCHANGED <<unit, images, scn, k, retval, thr, bo_buckets, bo_entries, xfer,
                   src_topology, dest_topology, checkpoint_maps, restore_maps,
                   drm_open>>

\* where the call goes after the process-info ioctl and the allocation of e
AfterProcessInfo(out) ==
    CASE out = "info_fail" -> [pc |-> "done", retval |-> -1]
      [] out = "nomem" -> [pc |-> "done", retval |-> -12]
      [] OTHER -> [pc |-> DumpNext("info"), retval |-> retval]

D_ProcessInfo ==
    /\ pc = "d_info"
    /\ log' = Append(log, "info")
    /\ ioctls' = Append(ioctls, "process_info")
    /\ \E out \in {"ok", "info_fail", "nomem"} :
          /\ pc' = AfterProcessInfo(out).pc
          /\ retval' = AfterProcessInfo(out).retval
          /\ stageRet' = Append(stageRet,
                [stage |-> "info",
                 ret |-> IF out = "ok" THEN 0 ELSE AfterProcessInfo(out).retval])
          /\ stageFail' = IF out = "ok" THEN stageFail ELSE stageFail \cup {"info"}
    /\ UNCHANGED <<unit, images, held, scn, k, ret, thr, bo_buckets, bo_entries, xfer,
                   src_topology, dest_topology, checkpoint_maps, restore_maps,
                   drm_open>>

D_DumpProcess ==
    /\ pc = "d_process"
    /\ log' = Append(log, "process")
    /\ \E out \in StageOutcomes :
          LET r == dump_process(out) IN
          /\ ioctls' = Ioctl("dump_process", r.ioctl)
          /\ StageDone("process", r.ret, out # "ok", DumpNext("process"), "d_exit")
    /\ UNCHANGED <<unit, images, scn, k, retval, thr, bo_buckets, bo_entries, xfer,
                   src_topology, dest_topology, checkpoint_maps, restore_maps,
                   drm_open>>

D_DumpDevices ==
    /\ pc = "d_devices"
    /\ log' = Append(log, "devices")
    /\ \E out \in StageOutcomes :
          LET maps == IF out = "ok" THEN AddDeviceBuckets(checkpoint_maps, scn.devs)
                      ELSE checkpoint_maps
              r == dump_devices(out, src_topology, maps)
          IN /\ checkpoint_maps' = maps
             /\ ioctls' = Ioctl("dump_devices", r.ioctl)
             /\ StageDone("devices", r.ret, r.ret # 0, DumpNext("devices"), "d_exit")
    /\ UNCHANGED <<unit, images, scn, k, retval, thr, bo_buckets, bo_entries, xfer,
                   src_topology, dest_topology, restore_maps, drm_open>>


\* e->bo_entries built by dump_bos: the driver's buckets with the gpu id
\* translated to the user-visible one
DumpBoEntries(buckets, maps) ==
    [i \in 1..Len(buckets) |->
        BoEntry(buckets[i], maps_get_dest_gpu(maps, buckets[i].gpu_id))]

\* dump_bos up to the spawn loop
D_DumpBos ==
    /\ pc = "d_bos"
    /\ log' = Append(log, "bos")
    /\ \E out \in StageOutcomes \cup {"nomem_threads"} :
          LET entries == DumpBoEntries(scn.bos, checkpoint_maps)
              unmapped == \E i \in 1..Len(entries) : entries[i].gpu_id = 0
              r == IF out = "nomem_threads" THEN [ret |-> -12, ioctl |-> FALSE]
                   ELSE IF out = "ok" /\ unmapped THEN [ret |-> -19, ioctl |-> TRUE]
                   ELSE StageResult(out)
          IN /\ ioctls' = Ioctl("dump_bos", r.ioctl)
             /\ IF r.ret # 0
                THEN /\ StageDone("bos", r.ret, TRUE, DumpNext("bos"), "d_exit")
                     /\ UNCHANGED <<k, thr, bo_buckets, bo_entries>>
                ELSE /\ thr' = [w \in 1..num_of_gpus |-> ThreadData]
                     /\ bo_buckets' = scn.bos
                     /\ bo_entries' = entries
                     /\ k' = 0
                     /\ ret' = 0
                     /\ pc' = "d_spawn"
                     /\ UNCHANGED <<stageFail, stageRet, held>>
    /\ UNCHANGED <<unit, images, scn, retval, xfer, src_topology, dest_topology,
                   checkpoint_maps, restore_maps, drm_open>>

\* what the spawn loop of dump_bos does when a step of iteration k fails:
\* ret is set and the loop is left through the exit label
DumpSpawnFailure(err) == [ret |-> err, leave |-> TRUE]

\* one iteration of the spawn loop of dump_bos
D_Spawn ==
    /\ pc = "d_spawn"
    /\ LET dev == sys_get_node_by_index(src_topology, k) IN
       IF dev = <<>>
       THEN /\ StageDone("bos", DumpSpawnFailure(-19).ret, TRUE, DumpNext("bos"), "d_exit")
            /\ UNCHANGED <<k, thr, drm_open>>
       ELSE \E opens \in BOOLEAN, created \in BOOLEAN :
               LET fd == node_get_drm_render_device(dev[1], opens) IN
               IF fd < 0
               THEN /\ StageDone("bos", DumpSpawnFailure(fd).ret, TRUE, DumpNext("bos"), "d_exit")
                    /\ UNCHANGED <<k, thr, drm_open>>
               ELSE /\ drm_open' = drm_open \cup {dev[1].gpu_id}
                    /\ IF ~created
                       THEN /\ StageDone("bos", DumpSpawnFailure(-11).ret, TRUE,
                                         DumpNext("bos"), "d_exit")
                            /\ UNCHANGED <<k, thr>>
                       ELSE /\ thr' = [thr EXCEPT ![k + 1] =
                                         [st |-> "init", gpu_id |-> dev[1].gpu_id,
                                          drm_fd |-> fd, ret |-> 0, i |-> 0,
                                          hw |-> "none", h_dev |-> "unset"]]
                            /\ k' = IF k + 1 = num_of_gpus THEN 0 ELSE k + 1
                            /\ pc' = IF k + 1 = num_of_gpus THEN "d_join" ELSE "d_spawn"
                            /\ UNCHANGED <<ret, stageFail, stageRet, held>>
    /\ log' = IF pc' = "d_exit" THEN log ELSE Append(log, "spawn")
    /\ UNCHANGED <<unit, images, scn, retval, ioctls, bo_buckets, bo_entries, xfer,
                   src_topology, dest_topology, checkpoint_maps, restore_maps>>

\* variant: a join loop that does not look at the worker's result code
JoinStep_IgnoreResult(tret) == [leave |-> FALSE, ret |-> tret]

\* the join loop after pthread_join returned for a worker whose result code
\* is tret: leave the loop with that code, or go on
JoinStep(tret) == [leave |-> tret # 0, ret |-> tret]

\* one iteration of the join loop of dump_bos; pthread_join blocks until the
\* worker has returned
D_Join ==
    /\ pc = "d_join"
    /\ thr[k + 1].st = "finished"
    /\ thr' = [thr EXCEPT ![k + 1].st = "joined"]
    /\ log' = Append(log, "join")
    /\ LET js == JoinStep(thr[k + 1].ret) IN
       IF js.leave
       THEN /\ StageDone("bos", js.ret, TRUE, DumpNext("bos"), "d_exit")
            /\ UNCHANGED k
       ELSE IF k + 1 = num_of_gpus
       THEN /\ StageDone("bos", ret, FALSE, DumpNext("bos"), "d_exit")
            /\ UNCHANGED k
       ELSE /\ k' = k + 1
            /\ UNCHANGED <<pc, ret, stageFail, stageRet, held>>
    /\ UNCHANGED <<unit, images, scn, retval, ioctls, bo_buckets, bo_entries, xfer,
                   src_topology, dest_topology, checkpoint_maps, restore_maps,
                   drm_open>>

D_DumpQueues ==
    /\ pc = "d_queues"
    /\ log' = Append(log, "queues")
    /\ \E total \in 0..1, out \in StageOutcomes :
          LET r == dump_queues(total, out) IN
          /\ ioctls' = Ioctl("dump_queues", r.ioctl)
          /\ StageDone("queues", r.ret, r.ret # 0, DumpNext("queues"), "d_exit")
    /\ UNCHANGED <<unit, images, scn, k, retval, thr, bo_buckets, bo_entries, xfer,
                   src_topology, dest_topology, checkpoint_maps, restore_maps,
                   drm_open>>

D_DumpEvents ==
    /\ pc = "d_events"
    /\ log' = Append(log, "events")
    /\ \E total \in 0..1, out \in StageOutcomes :
          LET r == dump_events(total, out) IN
          /\ ioctls' = Ioctl("dump_events", r.ioctl)
          /\ StageDone("events", r.ret, r.ret # 0, DumpNext("events"), "d_exit")
    /\ UNCHANGED <<unit, images, scn, k, retval, thr, bo_buckets, bo_entries, xfer,
                   src_topology, dest_topology, checkpoint_maps, restore_maps,
                   drm_open>>

\* check_hsakmt_shared_mem returns 0 whether or not the file exists
check_hsakmt_shared_mem == 0

D_SharedMem ==
    /\ pc = "d_shm"
    /\ log' = Append(log, "shm")
    /\ StageDone("shm", check_hsakmt_shared_mem, FALSE, DumpNext("shm"), "d_exit")
    /\ UNCHANGED <<unit, images, scn, k, retval, ioctls, thr, bo_buckets, bo_entries, xfer, src_topology, dest_topology, checkpoint_maps,
                   restore_maps, drm_open>>

\* pack the aggregate and write kfd.<id>.img; ret is write_file's result
D_Write ==
    /\ pc = "d_write"
    /\ \E out \in {"ok", "nomem", "write_fail"} :
          /\ log' = IF out = "nomem" THEN log ELSE log \o <<"encode", "write">>
          /\ StageDone("write",
                       CASE out = "nomem" -> -12 [] out = "write_fail" -> -5
                         [] OTHER -> 0,
                       out # "ok", DumpNext("write"), "d_exit")
          /\ images' = IF out = "nomem" THEN images
                       ELSE Append(images, [name |-> "kfd", complete |-> out = "ok"])
    /\ UNCHANGED <<unit, scn, k, retval, ioctls, thr, bo_buckets, bo_entries, xfer, src_topology, dest_topology, checkpoint_maps,
                   restore_maps, drm_open>>

\* the exit label: unpause, close the render devices, free_e(e), return ret.
\* e is NULL until the process-info stage has allocated it, and free_e reads
\* e->n_ev_entries before anything else: through a NULL e the call faults or,
\* where the build lets the read pass, goes on to the return
D_Exit ==
    /\ pc = "d_exit"
    /\ log' = log \o <<"unpause", "close">>
    /\ ioctls' = Append(ioctls, "unpause")
    /\ drm_open' = {}
    /\ LET e == IF \E n \in 1..Len(stageRet) :
                       stageRet[n] = [stage |-> "info", ret |-> 0]
                THEN "allocated" ELSE "NULL"
       IN \E faults \in (IF e = "NULL" THEN BOOLEAN ELSE {FALSE}) :
             IF faults THEN pc' = "crashed" /\ retval' = retval
             ELSE Return(ret)
    /\ UNCHANGED <<unit, images, held, scn, k, ret, thr, bo_buckets, bo_entries, xfer,
                   src_topology, dest_topology, checkpoint_maps, restore_maps,
                   stageFail, stageRet>>


\* ------------------------------ dump_bo_contents / restore_bo_contents
sdma_op_type == IF scn.mode = "dump" THEN "SDMA_OP_VRAM_READ" ELSE "SDMA_OP_VRAM_WRITE"

\* the steps before the fence wait that can fail for a copy of this type
\* (only the write direction allocates the staging buffer while preparing
\* the source)
PreSubmitFaults(type) ==
    IF type = "SDMA_OP_VRAM_WRITE" THEN SdmaPreSubmitFaults
    ELSE SdmaPreSubmitFaults \ {"src_alloc"}

\* strategy used for a buffer once the DMA copy was not attempted or did
\* not report success
FallbackPath(entry) ==
    IF "PUBLIC" \in entry.alloc_flags THEN "mmap" ELSE "procmem"

\* where the path finds the buffer: the DMA copy through the bucket's dmabuf
\* handle, the render-device mmap of a dump at the bucket's offset, the
\* /proc/pid/mem read of a dump at the bucket's address, both mmaps of a
\* restore at the offset the driver returned for the restored buffer
PathOffset(type, path) ==
    CASE path = "dma" -> "dmabuf_fd"
      [] type = "SDMA_OP_VRAM_WRITE" -> "restored_offset"
      [] path = "mmap" -> "offset"
      [] OTHER -> "addr"

\* everything sdma_copy_bo can do for a copy of this type whose fault is
\* one of faults, over every result of the cleanup calls
CleanupFaults == {"none"} \cup {CleanupCalls[c] : c \in 1..Len(CleanupCalls)}
SdmaResults(type, faults) ==
    {sdma_copy_bo(type, f, cf) : f \in faults, cf \in CleanupFaults}

\* the worker is done with buffer i: r is what sdma_copy_bo did (NoSdma when
\* it was not called), fb whether the fallback copy works.  A fallback that
\* fails sets ret = -errno and leaves the loop: a failed mmap or lseek has
\* set errno, a short read or write of /proc/pid/mem has not, and errno is
\* then whatever the thread's earlier calls left there, 0 included
BufferDone(w, i, r, fb) ==
    LET viaDma == r.attempted /\ r.ret = 0
        failed == ~viaDma /\ ~fb
        path == IF viaDma THEN "dma" ELSE FallbackPath(bo_entries[i])
        done == [w |-> w,
                 sdma |-> r.attempted,
                 path |-> path,
                 at |-> PathOffset(sdma_op_type, path),
                 ok |-> ~failed,
                 copied |-> IF viaDma THEN r.copied ELSE ~failed]
    IN /\ xfer' = [xfer EXCEPT ![i] = Append(@, done)]
       /\ \E errno \in (IF path = "procmem" THEN {0, 5} ELSE {5}) :
             thr' = [thr EXCEPT ![w] =
                       IF failed THEN [@ EXCEPT !.st = "finished", !.ret = -errno,
                                                 !.hw = "none", !.h_dev = "deinit"]
                       ELSE [@ EXCEPT !.st = "scan", !.i = i, !.hw = "none"]]

\* amdgpu_device_initialize and the open of /proc/<pid>/mem.  Every failure
\* goes to the exit label, which calls amdgpu_device_deinitialize(h_dev)
\* whatever happened: after a failed initialisation h_dev is a local that
\* was never assigned, and the call on it may return or fault
WorkerInit(w) ==
    /\ w \in DOMAIN thr
    /\ thr[w].st = "init"
    /\ \E out \in {"ok", "dev_init_fail", "asprintf_fail", "open_fail"},
          faults \in BOOLEAN :
          thr' = [thr EXCEPT ![w] =
                    CASE out = "dev_init_fail" ->
                           [@ EXCEPT !.st = IF faults THEN "crashed" ELSE "finished",
                                     !.ret = IF faults THEN 0 ELSE -22,
                                     !.h_dev = "deinit_unset"]
                      [] out = "asprintf_fail" ->
                           [@ EXCEPT !.st = "finished", !.ret = -1, !.h_dev = "deinit"]
                      [] out = "open_fail" ->
                           [@ EXCEPT !.st = "finished", !.ret = -13, !.h_dev = "deinit"]
                      [] OTHER -> [@ EXCEPT !.st = "scan", !.h_dev = "ready"]]
    /\ UNCHANGED <<unit, images, held, scn, pc, k, ret, retval, log, ioctls, bo_buckets, bo_entries,
                   xfer, src_topology, dest_topology, checkpoint_maps,
                   restore_maps, drm_open, stageFail, stageRet>>

\* does the loop body go past bucket i without transferring anything
SkipsBucket(bucket, gpu_id) ==
    \/ bucket.gpu_id # gpu_id
    \/ bucket.alloc_flags \cap {"VRAM", "GTT"} = {}

\* the first bucket after the i-th that the worker of gpu_id transfers
\* (Len + 1 when there is none)
NextOwnBucket(buckets, gpu_id, i) ==
    LET own == {j \in (i + 1)..Len(buckets) : ~SkipsBucket(buckets[j], gpu_id)}
    IN IF own = {} THEN Len(buckets) + 1
       ELSE CHOOSE j \in own : \A j2 \in own : j <= j2

\* the loop over the buckets, up to and including the next bucket the
\* worker transfers (thr[w].i iterations are done)
WorkerScan(w) ==
    /\ w \in DOMAIN thr
    /\ thr[w].st = "scan"
    /\ LET i == NextOwnBucket(bo_buckets, thr[w].gpu_id, thr[w].i) IN
       IF i > Len(bo_buckets)
       THEN /\ thr' = [thr EXCEPT ![w].st = "finished", ![w].i = Len(bo_buckets),
                                   ![w].h_dev = "deinit"]
            /\ UNCHANGED xfer
       ELSE IF "VRAM" \in bo_buckets[i].alloc_flags
       THEN \/ /\ \E hw \in {"signal", "error", "never"} :
                     thr' = [thr EXCEPT ![w].st = "fence", ![w].hw = hw,
                                        ![w].i = i - 1]
               /\ UNCHANGED xfer
            \/ \E r \in SdmaResults(sdma_op_type, PreSubmitFaults(sdma_op_type)),
                  fb \in BOOLEAN :
                  BufferDone(w, i, r, fb)
       ELSE \E fb \in BOOLEAN : BufferDone(w, i, NoSdma, fb)
    /\ UNCHANGED <<unit, images, held, scn, pc, k, ret, retval, log, ioctls, bo_buckets, bo_entries,
                   src_topology, dest_topology, checkpoint_maps, restore_maps,
                   drm_open, stageFail, stageRet>>

\* amdgpu_cs_query_fence_status returns and sdma_copy_bo runs to its end
WorkerFence(w) ==
    /\ w \in DOMAIN thr
    /\ thr[w].st = "fence"
    /\ QueryFenceReturns(thr[w].hw, FenceTimeout)
    /\ \E r \in SdmaResults(sdma_op_type, {QueryFenceFault(thr[w].hw)}),
          fb \in BOOLEAN :
          BufferDone(w, thr[w].i + 1, r, fb)
    /\ UNCHANGED <<unit, images, held, scn, pc, k, ret, retval, log, ioctls, bo_buckets, bo_entries,
                   src_topology, dest_topology, checkpoint_maps, restore_maps,
                   drm_open, stageFail, stageRet>>

\* the coordinator has left dump_bos / restore_bos and freed thread_datas and
\* the bucket array
ArraysFreed == thr # <<>> /\ pc \notin {"d_spawn", "d_join", "r_spawn", "r_join"}

\* a worker still running after thread_datas and the bucket array were freed
\* reads released memory: it may fault, or find any gpu id and flags in the
\* buckets it has not scanned yet and transfer one of them
WorkerFault(w) ==
    /\ w \in DOMAIN thr
    /\ WorkerActive(w)
    /\ ArraysFreed
    /\ \/ /\ thr' = [thr EXCEPT ![w].st = "crashed"]
          /\ UNCHANGED xfer
       \/ /\ thr[w].st = "scan"
          /\ \E i \in (thr[w].i + 1)..Len(bo_buckets), fb \in BOOLEAN :
                BufferDone(w, i, NoSdma, fb)
    /\ UNCHANGED <<unit, images, held, scn, pc, k, ret, retval, log, ioctls, bo_buckets, bo_entries,
                   src_topology, dest_topology, checkpoint_maps,
                   restore_maps, drm_open, stageFail, stageRet>>


\* ---------------------------------------- amdgpu_plugin_restore_file
\* handle of /dev/kfd opened by the restore call
KfdFd == 5

R_ReadImage ==
    /\ scn.mode = "restore" /\ pc = "start"
    /\ \E out \in {"ok", "open_fail", "nomem", "read_fail"} :
          /\ held' = CASE out = "open_fail" -> held
                        [] out = "ok" -> held \cup {"kfd fd", "image buf"}
                        [] OTHER -> held \cup {"kfd fd"}
          /\ IF out = "ok"
             THEN /\ log' = Append(log, "read")
                  /\ pc' = "r_topology"
                  /\ UNCHANGED retval
             ELSE /\ Return(IF out = "nomem" THEN -12 ELSE -1)
                  /\ UNCHANGED log
    /\ UNCHANGED <<unit, images, scn, k, ret, ioctls, thr, bo_buckets, bo_entries, xfer,
                   src_topology, dest_topology, checkpoint_maps, restore_maps,
                   drm_open, stageFail, stageRet>>

\* devinfo_to_topology, then topology_parse of the local system
R_Topology ==
    /\ pc = "r_topology"
    /\ \E out \in {"ok", "devinfo_fail", "parse_fail"} :
          /\ src_topology' = IF out = "devinfo_fail" THEN src_topology ELSE scn.devs
          /\ dest_topology' = IF out = "ok" THEN scn.topo ELSE dest_topology
          /\ log' = CASE out = "devinfo_fail" -> Append(log, "src_topology")
                      [] OTHER -> log \o <<"src_topology", "dest_topology">>
          /\ StageDone("topology",
                       CASE out = "devinfo_fail" -> -22 [] out = "parse_fail" -> -1
                         [] OTHER -> 0,
                       out # "ok", RestoreNext("topology"), "r_exit")
    /\ UNCHANGED <<unit, images, scn, k, retval, ioctls, thr, bo_buckets, bo_entries, xfer, checkpoint_maps, restore_maps, drm_open>>

\* variant: the result of set_restore_gpu_maps is not checked
AfterRestoreMaps_Unchecked(r) == "r_process"

\* where the restore call continues once set_restore_gpu_maps returned r
AfterRestoreMaps(r) == IF r # 0 THEN "r_exit" ELSE "r_process"

R_BuildMap ==
    /\ pc = "r_map"
    /\ log' = Append(log, "map")
    /\ LET m == set_restore_gpu_maps(src_topology, dest_topology,
                                   IF kfd_fw_version_check
                                   THEN {"fw_version"} ELSE {}) IN
       /\ restore_maps' = m.maps
       /\ ret' = m.ret
       /\ stageRet' = Append(stageRet, [stage |-> "map", ret |-> m.ret])
       /\ stageFail' = IF m.ret # 0 THEN stageFail \cup {"map"} ELSE stageFail
       /\ pc' = AfterRestoreMaps(m.ret)
    /\ UNCHANGED <<unit, images, held, scn, k, retval, ioctls, thr, bo_buckets, bo_entries, xfer, src_topology, dest_topology, checkpoint_maps, drm_open>>

R_Process ==
    /\ pc = "r_process"
    /\ log' = Append(log, "process")
    /\ \E out \in StageOutcomes :
          LET r == restore_process(out) IN
          /\ ioctls' = Ioctl("restore_process", r.ioctl)
          /\ StageDone("process", r.ret, out # "ok", RestoreNext("process"), "r_exit")
    /\ UNCHANGED <<unit, images, scn, k, retval, thr, bo_buckets, bo_entries, xfer,
                   src_topology, dest_topology, checkpoint_maps, restore_maps,
                   drm_open>>

\* restore_devices: the loop over the GPU entries handles entries 1..n-1 and
\* fails on entry n with the given fault ("none": the loop completes and the
\* ioctl is issued with result ioctlRet)
restore_devices(fault, ioctlRet) ==
    CASE fault = "nomem" -> [ret |-> -12, ioctl |-> FALSE]
      [] fault = "unmapped" -> [ret |-> -19, ioctl |-> FALSE]
      [] fault = "no_node" -> [ret |-> -19, ioctl |-> FALSE]
      [] fault = "drm_fail" -> [ret |-> 0, ioctl |-> FALSE]
      [] OTHER -> [ret |-> ioctlRet, ioctl |-> TRUE]

\* fault met by restore_devices at the GPU entry gpu, "none" if it passes
DeviceEntryFault(gpu, opens) ==
    LET actual == maps_get_dest_gpu(restore_maps, gpu.gpu_id) IN
    IF actual = 0 THEN "unmapped"
    ELSE LET node == sys_get_node_by_gpu_id(dest_topology, actual) IN
         IF node = <<>> THEN "no_node"
         ELSE IF node_get_drm_render_device(node[1], opens) < 0 THEN "drm_fail"
         ELSE "none"

R_Devices ==
    /\ pc = "r_devices"
    /\ log' = Append(log, "devices")
    /\ LET gpus == SelectGpus(scn.devs) IN
       \E nomem \in BOOLEAN, failOpen \in 0..Len(gpus), ioctlRet \in {0, -1} :
          LET faulty == {n \in 1..Len(gpus) :
                            DeviceEntryFault(gpus[n], n # failOpen) # "none"}
              first == IF faulty = {} THEN 0
                       ELSE CHOOSE n \in faulty : \A m \in faulty : n <= m
              fault == IF nomem THEN "nomem"
                       ELSE IF first = 0 THEN "none"
                       ELSE DeviceEntryFault(gpus[first], first # failOpen)
              passed == IF nomem THEN 0
                        ELSE IF first = 0 THEN Len(gpus) ELSE first - 1
              r == restore_devices(fault, ioctlRet)
          IN /\ drm_open' = drm_open \cup
                   {maps_get_dest_gpu(restore_maps, gpus[j].gpu_id) : j \in 1..passed}
             /\ ioctls' = Ioctl("restore_devices", r.ioctl)
             /\ StageDone("devices", r.ret, fault # "none" \/ r.ret # 0,
                          RestoreNext("devices"), "r_exit")
    /\ UNCHANGED <<unit, images, scn, k, retval, thr, bo_buckets, bo_entries, xfer,
                   src_topology, dest_topology, checkpoint_maps, restore_maps>>

\* the bucket array restore_bos hands to the driver: the image entries with
\* the gpu id translated to the local one
RestoreBoBuckets(entries, maps) ==
    [i \in 1..Len(entries) |->
        [gpu_id |-> maps_get_dest_gpu(maps, entries[i].gpu_id),
         alloc_flags |-> entries[i].alloc_flags,
         size |-> entries[i].size]]

\* restore_bos up to the spawn loop
R_Bos ==
    /\ pc = "r_bos"
    /\ \E out \in StageOutcomes \cup {"nomem_threads", "nomem_vma"} :
          LET buckets == RestoreBoBuckets(bo_entries, restore_maps)
              unmapped == \E i \in 1..Len(buckets) : buckets[i].gpu_id = 0
              r == IF out = "nomem_threads" THEN [ret |-> -12, ioctl |-> FALSE]
                   ELSE IF out # "nomem" /\ unmapped THEN [ret |-> -19, ioctl |-> FALSE]
                   ELSE IF out = "nomem_vma"
                   THEN IF \E i \in 1..Len(buckets) :
                              buckets[i].alloc_flags \cap
                                 {"VRAM", "GTT", "MMIO_REMAP", "DOORBELL"} # {}
                        THEN [ret |-> -12, ioctl |-> TRUE]
                        ELSE StageResult("ok")
                   ELSE StageResult(out)
          IN /\ ioctls' = Ioctl("restore_bos", r.ioctl)
             /\ log' = IF r.ioctl /\ out # "ioctl_fail"
                       THEN log \o <<"bos", "vma">> ELSE Append(log, "bos")
             /\ IF r.ret # 0
                THEN /\ StageDone("bos", r.ret, TRUE, RestoreNext("bos"), "r_exit")
                     /\ UNCHANGED <<k, thr, bo_buckets>>
                ELSE /\ thr' = [w \in 1..num_of_gpus |-> ThreadData]
                     /\ bo_buckets' = buckets
                     /\ k' = 0
                     /\ ret' = 0
                     /\ pc' = "r_spawn"
                     /\ UNCHANGED <<stageFail, stageRet, held>>
    /\ UNCHANGED <<unit, images, scn, retval, bo_entries, xfer, src_topology,
                   dest_topology, checkpoint_maps, restore_maps, drm_open>>

\* what the spawn loop of restore_bos does when a step of an iteration
\* fails: the value ret has when the loop is left through the exit label
\* (cur is ret before the failure, err the failing call's result)
RestoreSpawnFailure(step, err, cur) ==
    CASE step = "node" -> -19
      [] step = "drm" -> -err
      [] OTHER -> cur

\* one iteration of the spawn loop of restore_bos
R_Spawn ==
    /\ pc = "r_spawn"
    /\ LET dev == sys_get_node_by_index(dest_topology, k) IN
       IF dev = <<>>
       THEN /\ StageDone("bos", RestoreSpawnFailure("node", 0, ret), TRUE,
                         RestoreNext("bos"), "r_exit")
            /\ UNCHANGED <<k, thr, drm_open>>
       ELSE \E opens \in BOOLEAN, created \in BOOLEAN :
               LET fd == node_get_drm_render_device(dev[1], opens) IN
               IF fd < 0
               THEN /\ StageDone("bos", RestoreSpawnFailure("drm", fd, ret), TRUE,
                                 RestoreNext("bos"), "r_exit")
                    /\ UNCHANGED <<k, thr, drm_open>>
               ELSE /\ drm_open' = drm_open \cup {dev[1].gpu_id}
                    /\ IF ~created
                       THEN /\ StageDone("bos", RestoreSpawnFailure("thread", 11, ret),
                                         TRUE, RestoreNext("bos"), "r_exit")
                            /\ UNCHANGED <<k, thr>>
                       ELSE /\ thr' = [thr EXCEPT ![k + 1] =
                                         [st |-> "init", gpu_id |-> dev[1].gpu_id,
                                          drm_fd |-> fd, ret |-> 0, i |-> 0,
                                          hw |-> "none", h_dev |-> "unset"]]
                            /\ k' = IF k + 1 = num_of_gpus THEN 0 ELSE k + 1
                            /\ pc' = IF k + 1 = num_of_gpus THEN "r_join" ELSE "r_spawn"
                            /\ UNCHANGED <<ret, stageFail, stageRet, held>>
    /\ log' = IF pc' = "r_exit" THEN log ELSE Append(log, "spawn")
    /\ UNCHANGED <<unit, images, scn, retval, ioctls, bo_buckets, bo_entries, xfer,
                   src_topology, dest_topology, checkpoint_maps, restore_maps>>

\* one iteration of the join loop of restore_bos
R_Join ==
    /\ pc = "r_join"
    /\ thr[k + 1].st = "finished"
    /\ thr' = [thr EXCEPT ![k + 1].st = "joined"]
    /\ log' = Append(log, "join")
    /\ LET js == JoinStep(thr[k + 1].ret) IN
       IF js.leave
       THEN /\ StageDone("bos", js.ret, TRUE, RestoreNext("bos"), "r_exit")
            /\ UNCHANGED k
       ELSE IF k + 1 = num_of_gpus
       THEN /\ StageDone("bos", ret, FALSE, RestoreNext("bos"), "r_exit")
            /\ UNCHANGED k
       ELSE /\ k' = k + 1
            /\ UNCHANGED <<pc, ret, stageFail, stageRet, held>>
    /\ UNCHANGED <<unit, images, scn, retval, ioctls, bo_buckets, bo_entries, xfer,
                   src_topology, dest_topology, checkpoint_maps, restore_maps,
                   drm_open>>

R_Queues ==
    /\ pc = "r_queues"
    /\ log' = Append(log, "queues")
    /\ \E out \in StageOutcomes :
          LET r == restore_queues(scn.num_of_queues, out) IN
          /\ ioctls' = Ioctl("restore_queues", r.ioctl)
          /\ StageDone("queues", r.ret, r.ret # 0, RestoreNext("queues"), "r_exit")
    /\ UNCHANGED <<unit, images, scn, k, retval, thr, bo_buckets, bo_entries, xfer,
                   src_topology, dest_topology, checkpoint_maps, restore_maps,
                   drm_open>>

R_Events ==
    /\ pc = "r_events"
    /\ log' = Append(log, "events")
    /\ \E out \in StageOutcomes :
          LET r == restore_events(scn.num_of_events, out) IN
          /\ ioctls' = Ioctl("restore_events", r.ioctl)
          /\ StageDone("events", r.ret, r.ret # 0, RestoreNext("events"), "r_exit")
    /\ UNCHANGED <<unit, images, scn, k, retval, thr, bo_buckets, bo_entries, xfer,
                   src_topology, dest_topology, checkpoint_maps, restore_maps,
                   drm_open>>

\* restore_hsakmt_shared_mem: -errno or -EACCES when the file or the
\* semaphore cannot be recreated
R_SharedMem ==
    /\ pc = "r_shm"
    /\ log' = Append(log, "shm")
    /\ \E r \in {0, -13} : StageDone("shm", r, r # 0, RestoreNext("shm"), "r_exit")
    /\ UNCHANGED <<unit, images, scn, k, retval, ioctls, thr, bo_buckets, bo_entries, xfer, src_topology, dest_topology, checkpoint_maps,
                   restore_maps, drm_open>>

\* variant: a stored gpu id without map entry is taken for a local gpu id
restore_render_node_Unmapped(maps, sys, gpu_id, opens) ==
    LET id == maps_get_dest_gpu(maps, gpu_id)
        nodes == SelectGpus(sys)
    IN IF id = 0
       THEN IF nodes = <<>> THEN -19
            ELSE node_get_drm_render_device(nodes[1], opens)
       ELSE node_get_drm_render_device(sys_get_node_by_gpu_id(sys, id)[1], opens)

\* what the render-node branch returns once the image is decoded: the
\* render device handle of the GPU the map gives for gpu_id, or -ENODEV
restore_render_node(maps, sys, gpu_id, opens) ==
    LET target_gpu_id == maps_get_dest_gpu(maps, gpu_id)
        tp_node == IF target_gpu_id = 0 THEN <<>>
                   ELSE sys_get_node_by_gpu_id(sys, target_gpu_id)
    IN IF tp_node = <<>> THEN -19
       ELSE node_get_drm_render_device(tp_node[1], opens)

\* the branch of amdgpu_plugin_restore_file taken when no kfd.<id>.img
\* exists: read renderDXXX.<id>.img and return the render device handle of
\* the GPU that restore_maps gives for the stored gpu id
R_RenderNode ==
    /\ scn.mode = "restore_render" /\ pc = "start"
    /\ \E out \in {"ok", "stat_fail", "nomem", "read_fail", "unpack_fail"},
          opens \in BOOLEAN :
          IF out # "ok"
          THEN /\ Return(IF out = "nomem" THEN -12 ELSE -1)
               /\ UNCHANGED <<log, drm_open>>
          ELSE LET fd == restore_render_node(restore_maps, dest_topology,
                                             scn.gpu_id, opens)
               IN /\ Return(fd)
                  /\ log' = Append(log, "read")
                  /\ drm_open' = IF fd >= 0 THEN drm_open \cup {fd - 100}
                                 ELSE drm_open
    /\ UNCHANGED <<unit, images, held, scn, k, ret, ioctls, thr, bo_buckets,
                   bo_entries, xfer, src_topology, dest_topology,
                   checkpoint_maps, restore_maps, stageFail, stageRet>>

\* the value amdgpu_plugin_restore_file returns from its exit label
RestoreReturn(r, fd) == IF r # 0 THEN r ELSE fd

R_Exit ==
    /\ pc = "r_exit"
    /\ log' = Append(log, "close")
    /\ drm_open' = {}
    /\ Return(RestoreReturn(ret, KfdFd))
    /\ UNCHANGED <<unit, images, held, scn, k, ret, ioctls, thr, bo_buckets, bo_entries, xfer,
                   src_topology, dest_topology, checkpoint_maps, restore_maps,
                   stageFail, stageRet>>

\* ------------------------------------------------------- specification
Coordinator ==
    \/ D_ParseTopology \/ D_ValidateLinks \/ D_RenderNode \/ D_Pause
    \/ D_ProcessInfo
    \/ D_DumpProcess \/ D_DumpDevices \/ D_DumpBos \/ D_Spawn \/ D_Join
    \/ D_DumpQueues \/ D_DumpEvents \/ D_SharedMem \/ D_Write \/ D_Exit
    \/ R_ReadImage \/ R_Topology \/ R_BuildMap \/ R_Process \/ R_Devices
    \/ R_Bos \/ R_Spawn \/ R_Join \/ R_Queues \/ R_Events \/ R_SharedMem
    \/ R_Exit \/ R_RenderNode

Worker(w) == WorkerInit(w) \/ WorkerScan(w) \/ WorkerFence(w)

Next ==
    \/ Coordinator
    \/ \E w \in 1..MaxGpus : Worker(w)
    \/ \E w \in 1..MaxGpus : WorkerFault(w)

Spec == Init /\ [][Next]_vars

\* the threads are scheduled by the kernel: a coordinator or worker step
\* that stays possible is eventually taken
FairSpec ==
    /\ Init /\ [][Next]_vars
    /\ WF_vars(Coordinator)
    /\ \A w \in 1..MaxGpus : WF_vars(Worker(w))

\* ------------------------------------------------------------ properties

\* C1: once dump_bos or restore_bos has left its loops and freed thread_datas
\* and the bucket array, every worker thread that was spawned has been joined
C1_WorkersJoinedBeforeFree ==
    ArraysFreed => \A w \in DOMAIN thr : thr[w].st \in {"unspawned", "joined"}

\* C2: a buffer is recorded as transferred by DMA (sdma_copy_bo returned 0,
\* no fallback) only when the DMA copy really took place
C2_FailedDmaNotSuccess ==
    \A i \in DOMAIN xfer : \A j \in 1..Len(xfer[i]) :
        xfer[i][j].path = "dma" => xfer[i][j].copied

\* C3: the wait for the fence is bounded, so even with a fence that never
\* signals the worker returns and the dump or restore call terminates: it
\* returns or, where a fault ends the process, ends with it
C3_CallTerminates ==
    <>(\/ pc \in {"done", "crashed"}
       \/ \E w \in DOMAIN thr : thr[w].st = "crashed")

\* C4: a primary dump call that paused the process has issued the unpause
\* request by the time it returns, on every exit path
C4_UnpauseOnEveryExit ==
    (/\ scn.mode = "dump"
     /\ pc = "done"
     /\ \E i \in 1..Len(stageRet) : stageRet[i] = [stage |-> "pause", ret |-> 0])
    => \E i \in 1..Len(ioctls) : ioctls[i] = "unpause"

\* C5: the write of the kfd image is attempted at most once, and only after
\* pause, process info, dump_process, dump_devices, dump_bos (every worker
\* joined with result 0), dump_queues, dump_events and the shared memory
\* capture have all succeeded
C5_WriteOnlyAfterAllStages ==
    LET writes == {i \in 1..Len(log) : log[i] = "write"}
        before == {"pause", "info", "process", "devices", "bos", "queues",
                   "events", "shm"}
    IN scn.mode = "dump" =>
         /\ Cardinality(writes) <= 1
         /\ writes # {} =>
              /\ \A s \in before :
                    /\ \E i \in 1..Len(stageRet) : stageRet[i] = [stage |-> s, ret |-> 0]
                    /\ s \notin stageFail
              /\ \A i \in 1..Len(stageRet) :
                    stageRet[i].ret # 0 => stageRet[i].stage = "write"
              /\ Len(thr) = num_of_gpus
              /\ \A w \in DOMAIN thr : thr[w].st = "joined" /\ thr[w].ret = 0

\* the image was written (or its write failed) after two workers were joined
C5_Witness ==
    /\ scn.mode = "dump"
    /\ \E i \in 1..Len(log) : log[i] = "write"
    /\ Len(thr) >= 2
    /\ pc = "d_exit"

\* C6: a successful primary dump has performed, in this order and nothing
\* else: parse topology, validate links, pause, query counts, dump process,
\* dump devices, dump buffers (spawn every worker, then join every worker),
\* dump queues, dump events, capture shared memory, encode, write, unpause,
\* close the render devices
C6_DumpOrder ==
    LET workers == [w \in 1..num_of_gpus |-> "spawn"] \o
                   [w \in 1..num_of_gpus |-> "join"]
    IN (scn.mode = "dump" /\ pc = "done" /\ retval = 0) =>
          /\ log = <<"parse", "links", "pause", "info", "process", "devices",
                     "bos">> \o workers \o
                   <<"queues", "events", "shm", "encode", "write", "unpause",
                     "close">>
          /\ \A w \in DOMAIN thr : thr[w].st = "joined"
          /\ drm_open = {}

\* a successful dump of two GPUs in which a buffer was transferred
C6_Witness ==
    /\ scn.mode = "dump" /\ pc = "done" /\ retval = 0
    /\ Len(thr) >= 2
    /\ \E i \in DOMAIN xfer : xfer[i] # <<>>

\* C7: in a primary restore a failure inside any stage makes that stage
\* report failure, so that it is the last stage that runs and the call fails
C7_StageFailureStopsRestore ==
    scn.mode = "restore" =>
       \A i \in 1..Len(stageRet) :
          stageRet[i].stage \in stageFail =>
             /\ stageRet[i].ret # 0
             /\ i = Len(stageRet)
             /\ pc \in {"r_exit", "done"}

\* C8: the value a primary restore call returns is negative whenever a
\* stage reported failure, and non-negative only when every stage succeeded
C8_NegativeOnFailure ==
    (scn.mode = "restore" /\ pc = "done") =>
       /\ (\E i \in 1..Len(stageRet) : stageRet[i].ret # 0) => retval < 0
       /\ retval >= 0 => /\ retval = KfdFd
                         /\ \A i \in 1..Len(stageRet) : stageRet[i].ret = 0

\* C9: when the restore device map cannot be built, the restore call goes
\* straight to its exit and returns a failure, and no request has been or is
\* issued to the driver
C9_MapFailureNoDriverRequest ==
    (/\ scn.mode = "restore"
     /\ \E i \in 1..Len(stageRet) :
           stageRet[i].stage = "map" /\ stageRet[i].ret # 0)
    => /\ ioctls = <<>>
       /\ pc \in {"r_exit", "done"}
       /\ thr = <<>>
       /\ pc = "done" => retval < 0

\* a restore call that returned after set_restore_gpu_maps failed
C9_Witness ==
    /\ scn.mode = "restore" /\ pc = "done"
    /\ "map" \in stageFail
    /\ restore_maps = EmptyMap

\* C10: when restore_bos succeeds in a restore where no step has failed
\* (every worker spawned and joined with result 0), every VRAM or GTT buffer
\* was written by exactly one worker,
\* the worker of the GPU the map sends the buffer to
C10_EveryBufferWrittenOnce ==
    (/\ scn.mode = "restore"
     /\ stageFail = {}
     /\ \E i \in 1..Len(stageRet) : stageRet[i] = [stage |-> "bos", ret |-> 0])
    => \A i \in 1..Len(bo_buckets) :
          bo_buckets[i].alloc_flags \cap {"VRAM", "GTT"} # {} =>
             /\ Len(xfer[i]) = 1
             /\ Cardinality({w \in DOMAIN thr :
                               thr[w].gpu_id = bo_buckets[i].gpu_id}) = 1

\* C11: when dump_bos succeeds in a dump where no step has failed, every
\* VRAM or GTT buffer the driver reported had its content drained into the
\* raw-data payload of its record by exactly one worker, the worker of the
\* buffer's GPU
C11_EveryBufferDrainedOnce ==
    (/\ scn.mode = "dump"
     /\ stageFail = {}
     /\ \E i \in 1..Len(stageRet) : stageRet[i] = [stage |-> "bos", ret |-> 0])
    => \A i \in 1..Len(bo_buckets) :
          bo_buckets[i].alloc_flags \cap {"VRAM", "GTT"} # {} =>
             /\ Len(xfer[i]) = 1
             /\ xfer[i][1].copied
             /\ Cardinality({w \in DOMAIN thr :
                               thr[w].gpu_id = bo_buckets[i].gpu_id}) = 1

\* C12: in every interleaving of the workers of one call, no buffer's
\* content is read or written by two different workers (a transfer made or
\* under way), and the bucket array and the fixed fields of the records stay
\* as the coordinator built them
C12_NoSharedBufferAccess ==
    /\ \A i \in DOMAIN xfer :
          LET users == {xfer[i][j].w : j \in 1..Len(xfer[i])} \cup
                       {w \in DOMAIN thr : thr[w].st = "fence" /\ thr[w].i + 1 = i}
          IN Cardinality(users) <= 1
    /\ bo_buckets # <<>> =>
          bo_buckets = IF scn.mode = "dump" THEN scn.bos
                       ELSE RestoreBoBuckets(scn.bos, restore_maps)
    /\ (bo_entries # <<>> /\ scn.mode = "dump") =>
          bo_entries = DumpBoEntries(scn.bos, checkpoint_maps)
    /\ scn.mode = "restore" => bo_entries = scn.bos

\* C13: a buffer whose allocation flags contain neither VRAM nor GTT is
\* never touched by the transfer engine in either direction: its record has
\* no raw-data payload (length 0), and no worker makes or attempts a DMA
\* copy, a render-device mmap or a process-memory read or write for it
C13_IneligibleBufferUntouched ==
    \A i \in 1..Len(scn.bos) :
       scn.bos[i].alloc_flags \cap {"VRAM", "GTT"} = {} =>
          /\ i \in DOMAIN bo_entries => bo_entries[i].rawdata_len = 0
          /\ xfer[i] = <<>>
          /\ \A w \in DOMAIN thr : ~(thr[w].st = "fence" /\ thr[w].i + 1 = i)

\* C14: for every buffer a worker handles, the DMA copy is attempted exactly
\* when the VRAM flag is set; when it was not attempted or has failed, the
\* render-device mmap copy is used exactly when the PUBLIC flag is set and
\* the /proc/pid/mem path otherwise; at restore both of these paths map the
\* buffer at the offset the driver returned for the restored buffer
C14_StrategyOrder ==
    \A i \in DOMAIN xfer : \A j \in 1..Len(xfer[i]) :
       LET t == xfer[i][j]
           flags == scn.bos[i].alloc_flags
       IN /\ t.sdma <=> "VRAM" \in flags
          /\ t.path = "dma" => t.copied
          /\ t.path # "dma" => (t.path = "mmap" <=> "PUBLIC" \in flags)
          /\ (scn.mode = "restore" /\ t.path # "dma") => t.at = "restored_offset"

\* ------------------------------------------- routines examined on their own
\* The coordinator and the workers stand still while a routine is examined
\* on its own inputs.
Standstill ==
    /\ scn = [mode |-> "none", topo |-> <<>>, devs |-> <<>>, bos |-> <<>>]
    /\ pc = "unit"
    /\ k = 0
    /\ ret = 0
    /\ retval = 0
    /\ log = <<>>
    /\ ioctls = <<>>
    /\ thr = <<>>
    /\ bo_buckets = <<>>
    /\ bo_entries = <<>>
    /\ xfer = <<>>
    /\ src_topology = <<>>
    /\ dest_topology = <<>>
    /\ checkpoint_maps = EmptyMap
    /\ restore_maps = EmptyMap
    /\ drm_open = {}
    /\ stageFail = {}
    /\ stageRet = <<>>
    /\ images = <<>>
    /\ held = {}

mainVars == <<scn, pc, k, ret, retval, log, ioctls, thr, bo_buckets, bo_entries,
              xfer, src_topology, dest_topology, checkpoint_maps,
              restore_maps, drm_open, stageFail, stageRet, images, held>>

\* ---- sdma_copy_bo: the linear-copy packets of one buffer
MaxPackets == 3    \* whole maximum-size copies a buffer is made of, at most

SDMA_LINEAR_COPY_MAX_SIZE == 2097152

\* GPU generations on either side of the AMDGPU_FAMILY_AI comparison
GpuFamilies == {"VI", "AI"}

max_copy_size(family_id) ==
    IF family_id = "AI" THEN SDMA_LINEAR_COPY_MAX_SIZE
                        ELSE SDMA_LINEAR_COPY_MAX_SIZE - 1

\* copy_size = MAX(bytes_remain, max) would overrun the buffer
CopySize_Max(bytes_remain, max) ==
    IF bytes_remain < max THEN max ELSE bytes_remain

\* copy_size = min(bytes_remain, max_copy_size)
CopySize(bytes_remain, max) ==
    IF bytes_remain < max THEN bytes_remain ELSE max

\* buffer sizes around the multiples of the maximum single-copy size
PacketSizes ==
    {q * SDMA_LINEAR_COPY_MAX_SIZE + r :
        q \in 0..(MaxPackets - 1),
        r \in {0, 1, 4096, SDMA_LINEAR_COPY_MAX_SIZE - 1}}

\* GPU virtual addresses amdgpu_va_range_alloc hands out (page aligned)
GpuAddrs == {4096, 1073741824}

\* state of sdma_copy_bo when it enters the packet loop
PacketInputs ==
    {[op |-> "sdma_packets", family_id |-> f, size |-> s,
      n_packets |-> (s + SDMA_LINEAR_COPY_MAX_SIZE) \div SDMA_LINEAR_COPY_MAX_SIZE,
      gpu_addr_src_orig |-> a, gpu_addr_dest_orig |-> d,
      gpu_addr_src |-> a, gpu_addr_dest |-> d,
      bytes_remain |-> s, ib |-> <<>>, j |-> 0, padded |-> FALSE] :
        f \in GpuFamilies, s \in PacketSizes, a \in GpuAddrs, d \in GpuAddrs}

\* one iteration of while (bytes_remain > 0), which writes the 7 dwords of
\* a packet at ib[j..j+6]; after the loop, while (j & 7) ib[j++] = SDMA_NOP
SdmaPacket ==
    /\ unit.op = "sdma_packets"
    /\ IF unit.bytes_remain > 0
       THEN LET copy_size == CopySize(unit.bytes_remain,
                                      max_copy_size(unit.family_id))
            IN unit' = [unit EXCEPT
                          !.ib = Append(@, [count |-> copy_size,
                                            src |-> unit.gpu_addr_src,
                                            dest |-> unit.gpu_addr_dest]),
                          !.j = @ + 7,
                          !.gpu_addr_src = @ + copy_size,
                          !.gpu_addr_dest = @ + copy_size,
                          !.bytes_remain = @ - copy_size]
       ELSE /\ ~unit.padded
            /\ unit' = [unit EXCEPT !.j = 8 * ((@ + 7) \div 8),
                                    !.padded = TRUE]
    /\ UNCHANGED mainVars

\* ---- one buffer drained by dump_bo_contents, then filled by
\* ---- restore_bo_contents, on one path
BufferBytes == 2    \* bytes of the buffer whose content is followed

ByteValues == {0, 255}
Contents == [1..BufferBytes -> ByteValues]

CopyPaths == {"dma", "mmap", "procmem"}

\* dst after n bytes of src were copied over its beginning
CopyBytes(dst, src, n) ==
    [j \in 1..Len(dst) |-> IF j <= n THEN src[j] ELSE dst[j]]

\* every fault sdma_copy_bo can meet, the fence wait included
SdmaFaults(type) ==
    PreSubmitFaults(type) \cup {"none", "fence_err", "not_expired"}

\* What one transfer does to its destination and what the worker makes of
\* it: [ret, dst].  The DMA copy moves the bytes only when no step failed,
\* whatever sdma_copy_bo returns; mmap either fails or copies everything;
\* read/write on /proc/pid/mem moves n bytes, and a transfer shorter than
\* the buffer sets ret to -errno, where errno is what an earlier call left.
Transfers(type, path, src, dst) ==
    CASE path = "dma" ->
            {[ret |-> r.ret,
              dst |-> IF r.copied THEN src ELSE dst] :
                 r \in SdmaResults(type, SdmaFaults(type))}
      [] path = "mmap" ->
            {[ret |-> 0, dst |-> src], [ret |-> -12, dst |-> dst]}
      [] OTHER ->
            {[ret |-> 0, dst |-> src], [ret |-> -5, dst |-> dst]} \cup
            {[ret |-> e, dst |-> CopyBytes(dst, src, n)] :
                 e \in {0, -4}, n \in 1..(BufferBytes - 1)}

\* vram: the buffer's content at dump; rawdata: the xmalloc'ed payload of the
\* record; restored: the content of the freshly allocated restored buffer
RoundTripInputs ==
    {[op |-> "roundtrip", path |-> p, phase |-> "drain",
      vram |-> v, rawdata |-> g, restored |-> n] :
        p \in CopyPaths, v \in Contents, g \in Contents, n \in Contents}

DrainBuffer ==
    /\ unit.op = "roundtrip"
    /\ unit.phase = "drain"
    /\ \E t \in Transfers("SDMA_OP_VRAM_READ", unit.path, unit.vram, unit.rawdata) :
         unit' = [unit EXCEPT !.rawdata = t.dst,
                              !.phase = IF t.ret = 0 THEN "fill" ELSE "failed"]
    /\ UNCHANGED mainVars

FillBuffer ==
    /\ unit.op = "roundtrip"
    /\ unit.phase = "fill"
    /\ \E t \in Transfers("SDMA_OP_VRAM_WRITE", unit.path, unit.rawdata, unit.restored) :
         unit' = [unit EXCEPT !.restored = t.dst,
                              !.phase = IF t.ret = 0 THEN "done" ELSE "failed"]
    /\ UNCHANGED mainVars

\* ---- the image file kfd.<id>.img: write_file at dump, read_file at restore
MaxImageLen == 2   \* bytes of an encoded image, at most
MaxDumps == 2      \* dump calls writing the image under the same id

\* the buffers criu_kfd__pack fills: any bytes, criu_kfd__get_packed_size long
ImageBufs == UNION {[1..n -> ByteValues] : n \in 1..MaxImageLen}

\* The file after n bytes of buf were written from its beginning.  The file
\* is opened with O_WRONLY | O_CREAT and fdopen(fd, "w"), neither of which
\* truncates it: what an older file holds beyond the bytes written stays.
WriteBytes(file, buf, n) ==
    [j \in 1..(IF n > Len(file) THEN n ELSE Len(file)) |->
        IF j <= n THEN buf[j] ELSE file[j]]

\* write_file(img_path, buf, len): [ret, file]; "short" is an fwrite that
\* stops one byte before the end
write_file(file, buf, out) ==
    CASE out = "open_fails" -> [ret |-> -13, file |-> file]
      [] out = "ok" -> [ret |-> 0, file |-> WriteBytes(file, buf, Len(buf))]
      [] OTHER -> [ret |-> -5, file |-> WriteBytes(file, buf, Len(buf) - 1)]

WriteOutcomes == {"ok", "open_fails", "short"}

\* file: what the image directory holds under the name (<<>>: no file yet);
\* last: the buffer of the last dump whose write_file returned 0
ImageInputs ==
    {[op |-> "image", phase |-> "dump", dumps |-> 0, file |-> f,
      last |-> <<>>, read |-> <<>>] : f \in {<<>>} \cup ImageBufs}

\* amdgpu_plugin_dump_file from criu_kfd__get_packed_size to write_file
WriteImage ==
    /\ unit.op = "image"
    /\ unit.phase = "dump"
    /\ unit.dumps < MaxDumps
    /\ \E buf \in ImageBufs, out \in WriteOutcomes :
         LET w == write_file(unit.file, buf, out)
         IN unit' = [unit EXCEPT !.dumps = @ + 1,
                                 !.file = w.file,
                                 !.last = IF w.ret = 0 THEN buf ELSE @]
    /\ UNCHANGED mainVars

\* amdgpu_plugin_restore_file: stat, then read_file of st_size bytes
ReadImage ==
    /\ unit.op = "image"
    /\ unit.phase = "dump"
    /\ unit.file # <<>>
    /\ unit' = [unit EXCEPT !.phase = "read", !.read = unit.file]
    /\ UNCHANGED mainVars

\* ---- one buffer record: filled by dump_bos, packed, unpacked
\* bit of each allocation flag in the alloc_flags word
FlagNames == <<"VRAM", "GTT", "DOORBELL", "PUBLIC">>
FlagsWord(flags) ==
    LET bit(j) == IF FlagNames[j] \in flags THEN 2 ^ (j - 1) ELSE 0
        sum[j \in 0..Len(FlagNames)] == IF j = 0 THEN 0 ELSE sum[j - 1] + bit(j)
    IN sum[Len(FlagNames)]
FlagsOf(word) ==
    {FlagNames[j] : j \in {b \in 1..Len(FlagNames) : (word \div 2 ^ (b - 1)) % 2 = 1}}

\* the record as the image holds it: the fields in schema order, the raw
\* data as a length-prefixed byte string
encode(B) ==
    <<B.size, B.offset, FlagsWord(B.alloc_flags), Len(B.rawdata)>> \o B.rawdata

\* decoding fails on a truncated record or a length that does not match
decode(bytes) ==
    IF Len(bytes) < 4 THEN [error |-> "CorruptImage"]
    ELSE IF Len(bytes) # 4 + bytes[4] THEN [error |-> "CorruptImage"]
    ELSE [size |-> bytes[1], offset |-> bytes[2],
          alloc_flags |-> FlagsOf(bytes[3]),
          rawdata |-> SubSeq(bytes, 5, Len(bytes))]

\* offsets the driver reports for a buffer
BoOffsets == {0, 4096}

\* buckets the driver reports: any size up to BufferBytes
RecordBuckets ==
    [alloc_flags : BoFlagChoices, size : 0..BufferBytes, offset : BoOffsets]

RecordInputs ==
    {[op |-> "record", phase |-> "bucket", bucket |-> b, entry |-> <<>>,
      bytes |-> <<>>, decoded |-> <<>>] : b \in RecordBuckets}

\* allocate_bo_entries, the field copies of dump_bos and the workers filling
\* the payload
FillRecord ==
    /\ unit.op = "record"
    /\ unit.phase = "bucket"
    /\ \E data \in [1..allocate_bo_entries(unit.bucket) -> ByteValues] :
         unit' = [unit EXCEPT
                    !.phase = "entry",
                    !.entry = [size |-> unit.bucket.size,
                               offset |-> unit.bucket.offset,
                               alloc_flags |-> unit.bucket.alloc_flags,
                               rawdata |-> data]]
    /\ UNCHANGED mainVars

PackRecord ==
    /\ unit.op = "record"
    /\ unit.phase = "entry"
    /\ unit' = [unit EXCEPT !.phase = "packed", !.bytes = encode(unit.entry)]
    /\ UNCHANGED mainVars

UnpackRecord ==
    /\ unit.op = "record"
    /\ unit.phase = "packed"
    /\ unit' = [unit EXCEPT !.phase = "unpacked", !.decoded = decode(unit.bytes)]
    /\ UNCHANGED mainVars

\* ---- a device id map: entries added as dump_devices adds them, then
\* ---- one lookup
MaxEntries == 2    \* device buckets added to the map

\* gpu ids of a host on which the process was restored before: a user id
\* may be the actual id of another GPU
MapIds == {UserGpuId(1), UserGpuId(2), LocalGpuId(1)}

\* keys: the actual ids added so far; last: the bucket added last
MapInputs ==
    {[op |-> "map", phase |-> "add", map |-> EmptyMap, entries |-> 0,
      keys |-> {}, last |-> <<>>, key |-> 0, got |-> 0]}

AddEntry ==
    /\ unit.op = "map"
    /\ unit.phase = "add"
    /\ unit.entries < MaxEntries
    /\ \E a \in MapIds, u \in MapIds :
         LET bucket == [actual_gpu_id |-> a, user_gpu_id |-> u]
         IN unit' = [unit EXCEPT !.map = AddDeviceBuckets(@, <<bucket>>),
                                 !.entries = @ + 1,
                                 !.keys = @ \cup {a},
                                 !.last = bucket]
    /\ UNCHANGED mainVars

LookupId ==
    /\ unit.op = "map"
    /\ unit.phase = "add"
    /\ \E id \in MapIds :
         unit' = [unit EXCEPT !.phase = "looked", !.key = id,
                              !.got = maps_get_dest_gpu(unit.map, id)]
    /\ UNCHANGED mainVars

\* ---- the gpu ids of one category of records, translated one by one
MaxRecords == 2    \* records of one category

RecordKinds == {"device", "bo", "queue", "event"}

\* the translation taken as good whatever the map returns
TranslateGpuId_Unchecked(kind, maps, id) ==
    IF kind \in {"device", "event"} /\ id = 0
    THEN [ret |-> 0, translated |-> FALSE, gpu_id |-> 0]
    ELSE [ret |-> 0, translated |-> TRUE, gpu_id |-> maps_get_dest_gpu(maps, id)]

\* What the loop body of a dump_* or restore_* routine does with the gpu id
\* of one record.  A device entry without gpu id (a CPU node) is skipped, an
\* event without gpu id keeps 0; every other id goes through the map, and
\* the routine leaves with an error when the map returns 0 (-EINVAL from
\* topology_to_devinfo, -ENODEV elsewhere).
TranslateGpuId(kind, maps, id) ==
    IF kind \in {"device", "event"} /\ id = 0
    THEN [ret |-> 0, translated |-> FALSE, gpu_id |-> 0]
    ELSE LET t == maps_get_dest_gpu(maps, id)
         IN [ret |-> IF t # 0 THEN 0 ELSE IF kind = "device" THEN -22 ELSE -19,
             translated |-> TRUE, gpu_id |-> t]

\* the checkpoint map after dump_devices (actual id -> user id) and the
\* restore map after the matcher (user id -> local id); not every GPU need
\* be in them
TranslateMaps(mode) ==
    LET known(i) == IF mode = "dump" THEN LocalGpuId(i) ELSE UserGpuId(i)
        mapped(i) == IF mode = "dump" THEN UserGpuId(i) ELSE LocalGpuId(i)
    IN {[x \in {known(i) : i \in S} |-> mapped(CHOOSE i \in S : known(i) = x)] :
           S \in SUBSET (1..MaxGpus)}

\* ids the driver reports at dump, ids the image holds at restore
TranslateIds(mode) ==
    {0} \cup (IF mode = "dump" THEN {LocalGpuId(i) : i \in 1..MaxGpus}
                               ELSE {UserGpuId(i) : i \in 1..MaxGpus})

TranslateInputs ==
    UNION {[op : {"translate"}, mode : {m}, kind : RecordKinds,
            phase : {"loop"}, maps : TranslateMaps(m),
            ids : SeqsUpTo(TranslateIds(m), MaxRecords),
            i : {0}, out : {<<>>}, ret : {0}] : m \in {"dump", "restore"}}

\* one iteration of the loop over the records; after the last record the
\* entries are kept for the image (dump) or handed to the driver (restore)
TranslateNext ==
    /\ unit.op = "translate"
    /\ unit.phase = "loop"
    /\ IF unit.i = Len(unit.ids)
       THEN unit' = [unit EXCEPT !.phase = "done"]
       ELSE LET id == unit.ids[unit.i + 1]
                t == TranslateGpuId(unit.kind, unit.maps, id)
            IN IF t.ret # 0
               THEN unit' = [unit EXCEPT !.phase = "aborted", !.ret = t.ret]
               ELSE unit' = [unit EXCEPT
                               !.i = @ + 1,
                               !.out = IF unit.kind = "device" /\ ~t.translated
                                       THEN @
                                       ELSE Append(@, [from |-> id,
                                                       gpu_id |-> t.gpu_id])]
    /\ UNCHANGED mainVars

\* ---------------------------------------------- topology matcher alone
\* checkpoint and destination topologies of GPU nodes that differ in the
\* hardware properties the predicates compare; gpu ids by position
MatchInputs ==
    LET base == [fw_version |-> 1, sdma_fw_version |-> 1, caches_count |-> 1,
                 num_gws |-> 1, vram_size |-> 2, numa |-> 1]
        NodeProfiles ==
           {base,
            [base EXCEPT !.fw_version = 2, !.sdma_fw_version = 2,
                         !.caches_count = 2],
            [base EXCEPT !.num_gws = 2, !.vram_size = 1, !.numa = 2]}
        Topology(profiles, IdOf(_)) ==
           [i \in 1..Len(profiles) |->
               [gpu_id |-> IdOf(i),
                fw_version |-> profiles[i].fw_version,
                sdma_fw_version |-> profiles[i].sdma_fw_version,
                caches_count |-> profiles[i].caches_count,
                num_gws |-> profiles[i].num_gws,
                vram_size |-> profiles[i].vram_size,
                numa |-> profiles[i].numa]]
    IN {[op |-> "match", phase |-> "input", checks |-> c,
         src |-> Topology(s, UserGpuId), dest |-> Topology(d, LocalGpuId),
         ret |-> 0, maps |-> EmptyMap] :
           c \in SUBSET CheckNames,
           s \in SeqsUpTo(NodeProfiles, MaxGpus),
           d \in SeqsUpTo(NodeProfiles, MaxDestGpus)}

\* the call of the matcher in amdgpu_plugin_restore_file
MatchGpus ==
    /\ unit.op = "match"
    /\ unit.phase = "input"
    /\ LET m == set_restore_gpu_maps(unit.src, unit.dest, unit.checks)
       IN unit' = [unit EXCEPT !.phase = "done", !.ret = m.ret, !.maps = m.maps]
    /\ UNCHANGED mainVars

\* ------------------------------------------------- amdgpu_plugin_init alone
\* strings are sequences of characters; 0 when the strings are equal up
\* to letter case
strcasecmp(a, b) ==
    LET toupper(c) ==
           CASE c = "n" -> "N" [] c = "o" -> "O" [] c = "y" -> "Y"
             [] c = "e" -> "E" [] c = "s" -> "S" [] OTHER -> c
    IN IF Len(a) = Len(b) /\ \A i \in 1..Len(a) : toupper(a[i]) = toupper(b[i])
       THEN 0 ELSE 1

\* the environment variable that getenv_bool reads for each toggle
EnvVarOf(check) ==
    CASE check = "fw_version" -> "KFD_FW_VER_CHECK"
      [] check = "sdma_fw_version" -> "KFD_SDMA_FW_VER_CHECK"
      [] check = "caches_count" -> "KFD_CACHES_COUNT_CHECK"
      [] check = "num_gws" -> "KFD_NUM_GWS_CHECK"
      [] check = "vram_size" -> "KFD_VRAM_SIZE_CHECK"
      [] check = "numa" -> "KFD_NUMA_CHECK"

\* variant: NO and YES are recognised in capitals only
getenv_bool_CaseSensitive(env, var, value) ==
    IF var \notin DOMAIN env THEN value
    ELSE IF env[var] \in {<<"0">>, <<"N", "O">>} THEN FALSE
    ELSE IF env[var] \in {<<"1">>, <<"Y", "E", "S">>} THEN TRUE
    ELSE value

\* env holds the variables that are set; value is the toggle before the call
getenv_bool(env, var, value) ==
    IF var \notin DOMAIN env THEN value
    ELSE IF env[var] = <<"0">> \/ strcasecmp(env[var], <<"N", "O">>) = 0
    THEN FALSE
    ELSE IF env[var] = <<"1">> \/ strcasecmp(env[var], <<"Y", "E", "S">>) = 0
    THEN TRUE
    ELSE value

\* the toggles after amdgpu_plugin_init
amdgpu_plugin_init(stage, toggles, env) ==
    IF stage = "RESTORE"
    THEN [c \in CheckNames |-> getenv_bool(env, EnvVarOf(c), TRUE)]
    ELSE toggles

MaxEnvSet == 2
\* environments with at most MaxEnvSet of the six variables set
InitInputs ==
    LET EnvStrings ==
           {<<>>, <<"0">>, <<"1">>, <<"0", "0">>, <<"O", "N">>,
            <<"N", "O">>, <<"n", "o">>, <<"N", "o">>,
            <<"Y", "E", "S">>, <<"y", "E", "s">>}
        names == {EnvVarOf(c) : c \in CheckNames}
        envs == UNION {[D -> EnvStrings] :
                          D \in {S \in SUBSET names : Cardinality(S) <= MaxEnvSet}}
        before == {[c \in CheckNames |-> TRUE], [c \in CheckNames |-> FALSE],
                   [c \in CheckNames |-> c \in {"fw_version", "numa"}]}
    IN [op : {"init"}, phase : {"input"}, stage : {"DUMP", "RESTORE"},
        env : envs, before : before, toggles : before]

PluginInit ==
    /\ unit.op = "init"
    /\ unit.phase = "input"
    /\ unit' = [unit EXCEPT
                  !.phase = "done",
                  !.toggles = amdgpu_plugin_init(unit.stage, unit.before, unit.env)]
    /\ UNCHANGED mainVars

\* ------------------------------------------ amdgpu_plugin_update_vmamap
MaxVmas == 2

\* variant: the path is compared as it comes
CollapseSlashes_None(buf, i, end) == buf

\* the loop that removes one of two adjacent slashes: buf is path[] with its
\* terminator at index end, i is p_begin; memmove shifts buf[i+1..end] down
\* by one and p_end stays where it was
RECURSIVE CollapseSlashes(_, _, _)
CollapseSlashes(buf, i, end) ==
    IF i < end - 1
    THEN IF buf[i] = "/" /\ buf[i + 1] = "/"
         THEN CollapseSlashes([j \in 1..Len(buf) |->
                                  IF i <= j /\ j <= end - 1 THEN buf[j + 1]
                                  ELSE buf[j]], i, end)
         ELSE CollapseSlashes(buf, i + 1, end)
    ELSE buf

\* paths are sequences of pieces: "/" and the names between the slashes,
\* the digits of a render device apart from "renderD"; NUL ends a string.
\* vmas is update_vma_info_list in list order; new_path and new_offset are
\* the caller's buffers, written only on a match
amdgpu_plugin_update_vmamap(vmas, old_path, new_path, addr, old_offset, new_offset) ==
    LET NUL == "NUL"
        buf == CollapseSlashes(Append(old_path, NUL), 1, Len(old_path) + 1)
        strlen == (CHOOSE j \in 1..Len(buf) :
                      buf[j] = NUL /\ \A h \in 1..(j - 1) : buf[h] # NUL) - 1
        path == SubSeq(buf, 1, strlen)
        renderD == <<"/", "dev", "/", "dri", "/", "renderD">>
        is_renderD == /\ Len(path) >= Len(renderD)
                      /\ SubSeq(path, 1, Len(renderD)) = renderD
        is_kfd == path = <<"/", "dev", "/", "kfd">>
        decimal(n) == CASE n = RenderMinor(1) -> "128"
                        [] n = RenderMinor(2) -> "129"
        hits == {j \in 1..Len(vmas) :
                    addr = vmas[j].vma_entry /\ old_offset = vmas[j].old_pgoff}
        same == [ret |-> 0, new_path |-> new_path, new_offset |-> new_offset]
    IN IF ~is_renderD /\ ~is_kfd THEN same
       ELSE IF hits = {} THEN same
       ELSE LET vma_md == vmas[CHOOSE j \in hits : \A h \in hits : j <= h]
            IN [ret |-> 1,
                new_path |-> IF is_renderD
                             THEN Append(renderD, decimal(vma_md.new_minor))
                             ELSE old_path,
                new_offset |-> vma_md.new_pgoff]

\* the mappings CRIU asks about: each path with what it names once its
\* repeated slashes are dropped
VmaInputs ==
    LET Paths ==
           {[path |-> <<"/", "dev", "/", "kfd">>, kind |-> "kfd"],
            [path |-> <<"/", "/", "dev", "/", "/", "/", "kfd">>, kind |-> "kfd"],
            [path |-> <<"/", "dev", "/", "dri", "/", "renderD", "128">>,
             kind |-> "render"],
            [path |-> <<"/", "/", "dev", "/", "dri", "/", "/", "renderD", "129">>,
             kind |-> "render"],
            [path |-> <<"/", "dev", "/", "dri", "/", "card0">>, kind |-> "other"],
            [path |-> <<"/", "dev", "/", "kfd", "/">>, kind |-> "other"],
            [path |-> <<"/", "dev", "/", "zero">>, kind |-> "other"]}
        Restored == {[new_pgoff |-> 5, new_minor |-> RenderMinor(1)],
                     [new_pgoff |-> 6, new_minor |-> RenderMinor(2)]}
        Vmas == {[vma_entry |-> a, old_pgoff |-> o, new_pgoff |-> r.new_pgoff,
                  new_minor |-> r.new_minor] :
                    a \in {1, 2}, o \in {0, 1}, r \in Restored}
    IN {[op |-> "vmamap", phase |-> "input", vmas |-> v, old |-> q,
         addr |-> a, old_offset |-> 0,
         ret |-> 0, new_path |-> <<"untouched">>, new_offset |-> 99] :
           v \in SeqsUpTo(Vmas, MaxVmas), q \in Paths, a \in {1, 2}}

UpdateVmaMap ==
    /\ unit.op = "vmamap"
    /\ unit.phase = "input"
    /\ LET r == amdgpu_plugin_update_vmamap(unit.vmas, unit.old.path,
                                            unit.new_path, unit.addr,
                                            unit.old_offset, unit.new_offset)
       IN unit' = [unit EXCEPT !.phase = "done", !.ret = r.ret,
                               !.new_path = r.new_path,
                               !.new_offset = r.new_offset]
    /\ UNCHANGED mainVars

RECURSIVE SumCounts(_)
SumCounts(ib) ==
    IF ib = <<>> THEN 0 ELSE ib[1].count + SumCounts(Tail(ib))

\* ----------------------- bucket arrays of restore_devices and restore_bos
\* sizeof of one fixed-size bucket, in cells of the objects buffer
sizeof_bucket == 3

\* image entries in image order.  Device entries: the CPU node (gpu id 0)
\* and the GPUs; buffer entries: each with its address and offset at
\* checkpoint.  A private-data blob is empty or two bytes that name the
\* entry.  vmas is update_vma_info_list as earlier calls left it.
RestoreBucketInputs ==
    LET Blob(i, len) == [b \in 1..len |-> 10 * i + b]
        BoFlags == {{"VRAM"}, {"GTT"}, {"MMIO_REMAP"}, {"DOORBELL"}, {"USERPTR"}}
        Bos == { {[i \in 1..n |->
                    [gpu_id |-> UserGpuId(((i - 1) % MaxGpus) + 1),
                     alloc_flags |-> f[i], addr |-> 100 + i, offset |-> 200 + i,
                     priv |-> Blob(i, len[i])]] :
                  f \in [1..n -> BoFlags], len \in [1..n -> {0, 2}]} :
                n \in 0..MaxRecords}
        Devs == { {[i \in 1..(n + 1) |->
                    IF i = cpu THEN [gpu_id |-> 0, priv |-> <<>>]
                    ELSE [gpu_id |-> UserGpuId(IF i < cpu THEN i ELSE i - 1),
                          priv |-> Blob(i, len[i])]] :
                   cpu \in 1..(n + 1), len \in [1..(n + 1) -> {0, 2}]} :
                 n \in 1..MaxGpus}
        Earlier == {<<>>, <<[old_pgoff |-> 201, vma_entry |-> 100,
                             new_pgoff |-> 7, new_minor |-> RenderMinor(1)]>>}
        Start(kind, entries, vmas) ==
           [op |-> "buckets", phase |-> "alloc", kind |-> kind,
            entries |-> entries,
            maps |-> [x \in {UserGpuId(g) : g \in 1..MaxGpus} |->
                         LocalGpuId(MaxGpus + 1 - (x - UserGpuId(0)))],
            sys |-> <<CpuNode>> \o
                    [g \in 1..MaxGpus |-> GpuNode(LocalGpuId(g), 1, RenderMinor(g))],
            i |-> 0, ret |-> 0, num_objects |-> 0, priv_data_offset |-> 0,
            buckets |-> <<>>, objects |-> <<>>, overrun |-> FALSE,
            vmas0 |-> vmas, vmas |-> vmas]
    IN {Start("bo", e, v) : e \in UNION Bos, v \in Earlier}
          \cup {Start("device", e, <<>>) : e \in UNION Devs}

\* variant: the running offset is not advanced
fill_bucket_NoAdvance(u, entry) ==
    LET base == u.num_objects * sizeof_bucket
        at(c) == c - base - u.priv_data_offset
        gpu_id == maps_get_dest_gpu(u.maps, entry.gpu_id)
    IN [u EXCEPT
          !.buckets = Append(@, [priv_data_size |-> Len(entry.priv),
                                 priv_data_offset |-> u.priv_data_offset,
                                 gpu_id |-> gpu_id, entry |-> u.i + 1]),
          !.objects = [c \in 1..Len(@) |->
                          IF at(c) \in 1..Len(entry.priv) THEN entry.priv[at(c)]
                          ELSE @[c]],
          !.overrun = @ \/ base + u.priv_data_offset + Len(entry.priv) > Len(u.objects),
          !.i = @ + 1,
          !.ret = IF gpu_id = 0 THEN -19 ELSE 0,
          !.phase = IF gpu_id = 0 THEN "failed" ELSE @]

\* the loop body that fills the next bucket from an image entry: size and
\* offset of its private data, the copy of the private data behind the
\* bucket array, and the translated gpu id
fill_bucket(u, entry) ==
    LET base == u.num_objects * sizeof_bucket
        at(c) == c - base - u.priv_data_offset
        gpu_id == maps_get_dest_gpu(u.maps, entry.gpu_id)
    IN [u EXCEPT
          !.buckets = Append(@, [priv_data_size |-> Len(entry.priv),
                                 priv_data_offset |-> u.priv_data_offset,
                                 gpu_id |-> gpu_id, entry |-> u.i + 1]),
          !.priv_data_offset = @ + Len(entry.priv),
          !.objects = [c \in 1..Len(@) |->
                          IF at(c) \in 1..Len(entry.priv) THEN entry.priv[at(c)]
                          ELSE @[c]],
          !.overrun = @ \/ base + u.priv_data_offset + Len(entry.priv) > Len(u.objects),
          !.i = @ + 1,
          !.ret = IF gpu_id = 0 THEN -19 ELSE 0,
          !.phase = IF gpu_id = 0 THEN "failed" ELSE @]

\* variant: only VRAM and GTT buffers get an entry
vma_metadata_VramGtt(entry, bucket, sys) ==
    IF entry.alloc_flags \cap {"VRAM", "GTT"} = {} THEN <<>>
    ELSE <<[old_pgoff |-> entry.offset, vma_entry |-> entry.addr,
            new_minor |-> sys_get_node_by_gpu_id(sys, bucket.gpu_id)[1].drm_render_minor,
            new_pgoff |-> bucket.restored_offset]>>

\* the entry restore_bos appends to update_vma_info_list for a restored
\* bucket (entry holds the fields the bucket got from the image): none for
\* a buffer that is not mapped through a device file
vma_metadata(entry, bucket, sys) ==
    IF entry.alloc_flags \cap {"VRAM", "GTT", "MMIO_REMAP", "DOORBELL"} = {}
    THEN <<>>
    ELSE <<[old_pgoff |-> entry.offset, vma_entry |-> entry.addr,
            new_minor |-> sys_get_node_by_gpu_id(sys, bucket.gpu_id)[1].drm_render_minor,
            new_pgoff |-> bucket.restored_offset]>>

\* restore_devices and restore_bos: size and allocate the objects buffer,
\* fill one bucket per step, call the driver, and (buffers) append the
\* pending VMA entries one bucket per step
RestoreBuckets ==
    /\ unit.op = "buckets"
    /\ LET u == unit
           used == SelectSeq(u.entries,
                             LAMBDA e : u.kind = "bo" \/ e.gpu_id # 0)
           privTotal == SumCounts([j \in 1..Len(used) |->
                                      [count |-> Len(used[j].priv)]])
       IN CASE u.phase = "alloc" ->
                 \E nomem \in BOOLEAN :
                    unit' = IF nomem
                            THEN [u EXCEPT !.phase = "failed", !.ret = -12]
                            ELSE [u EXCEPT
                                    !.phase = "fill",
                                    !.num_objects = Len(used),
                                    !.objects =
                                       [c \in 1..(Len(used) * sizeof_bucket
                                                   + privTotal) |-> 0]]
            [] u.phase = "fill" ->
                 IF u.i = Len(u.entries)
                 THEN unit' = [u EXCEPT !.phase = "ioctl"]
                 ELSE IF u.kind = "device" /\ u.entries[u.i + 1].gpu_id = 0
                 THEN unit' = [u EXCEPT !.i = @ + 1]
                 ELSE unit' = fill_bucket(u, u.entries[u.i + 1])
            [] u.phase = "ioctl" ->
                 \E r \in {0, -1}, first \in {50, 60} :
                    unit' = IF r # 0
                            THEN [u EXCEPT !.phase = "failed", !.ret = r]
                            ELSE IF u.kind = "device"
                            THEN [u EXCEPT !.phase = "done"]
                            ELSE [u EXCEPT
                                    !.phase = "vma", !.i = 0,
                                    !.buckets =
                                       [j \in 1..Len(@) |->
                                           [gpu_id |-> @[j].gpu_id,
                                            entry |-> @[j].entry,
                                            priv_data_size |-> @[j].priv_data_size,
                                            priv_data_offset |-> @[j].priv_data_offset,
                                            restored_offset |-> first + j]]]
            [] u.phase = "vma" ->
                 IF u.i = Len(u.buckets)
                 THEN unit' = [u EXCEPT !.phase = "done"]
                 ELSE LET bucket == u.buckets[u.i + 1]
                          entry == u.entries[bucket.entry]
                      IN \E nomem \in BOOLEAN :
                            unit' =
                               IF nomem /\ vma_metadata(entry, bucket, u.sys) # <<>>
                               THEN [u EXCEPT !.phase = "failed", !.ret = -12]
                               ELSE IF sys_get_node_by_gpu_id(u.sys, bucket.gpu_id) = <<>>
                               THEN [u EXCEPT !.phase = "failed", !.ret = -19]
                               ELSE [u EXCEPT
                                       !.i = @ + 1,
                                       !.vmas = @ \o vma_metadata(entry, bucket,
                                                                  u.sys)]
            [] OTHER -> FALSE
    /\ UNCHANGED mainVars

\* ------------------------------- device records of the image (3.1, 4.1)
\* devinfo_to_topology: one node per record, in order; sys_add_node gives a
\* zeroed node with the record's node id and gpu id, a record with a core
\* count is taken for a CPU, and node_add_iolink adds the stored links
devinfo_to_topology(devinfos, num_devices) ==
    [i \in 1..num_devices |->
        LET devinfo == devinfos[i]
            node == [id |-> devinfo.node_id, gpu_id |-> devinfo.gpu_id,
                     cpu_cores_count |-> 0, simd_count |-> 0,
                     drm_render_minor |-> 0, fw_version |-> 0,
                     iolinks |-> [j \in 1..Len(devinfo.iolinks) |->
                                     [type |-> devinfo.iolinks[j].type,
                                      node_to_id |-> devinfo.iolinks[j].node_to_id]]]
        IN IF devinfo.cpu_cores_count # 0
           THEN [node EXCEPT !.cpu_cores_count = devinfo.cpu_cores_count]
           ELSE [node EXCEPT !.simd_count = devinfo.simd_count,
                             !.drm_render_minor = devinfo.drm_render_minor,
                             !.fw_version = devinfo.fw_version]]

\* the device records from dump to restore: dump_devices counts the GPUs
\* and CPUs and fills the records, the spawn loop of dump_bos looks up one
\* GPU node per device the driver reported; the restore call rebuilds the
\* checkpoint topology and restore_devices fills one bucket per record
\* with a gpu id into the num_of_gpus buckets it allocated
DeviceRoundTrip ==
    /\ unit.op = "devinfo"
    /\ CASE unit.phase = "input" ->
              LET maps == AddDeviceBuckets(EmptyMap, unit.buckets)
                  total_devices == Len(unit.buckets)
                  r == topology_to_devinfo(unit.sys, maps)
                  spawned == \A i \in 0..(total_devices - 1) :
                                sys_get_node_by_index(unit.sys, i) # <<>>
              IN unit' = [unit EXCEPT
                            !.phase = "dumped",
                            !.num_of_gpus = total_devices,
                            !.num_of_cpus = Len(unit.sys) - total_devices,
                            !.device_entries = r.entries,
                            !.ret = IF r.ret # 0 THEN r.ret
                                    ELSE IF ~spawned THEN -19 ELSE 0]
         [] unit.phase = "dumped" /\ unit.ret = 0 ->
              LET n == unit.num_of_cpus + unit.num_of_gpus
                  filled == Cardinality({i \in 1..n :
                                           unit.device_entries[i].gpu_id # 0})
              IN unit' = [unit EXCEPT
                            !.phase = "restored",
                            !.src_topology =
                                devinfo_to_topology(unit.device_entries, n),
                            !.bucket_index = filled,
                            !.overrun = filled > unit.num_of_gpus]
         [] OTHER -> FALSE
    /\ UNCHANGED mainVars

\* ------------------------------------ the hooks of one plugin process
MaxHookCalls == 4   \* hook calls CRIU makes in one process, at most

\* variant: fini also empties update_vma_info_list
amdgpu_plugin_fini_ClearsList(u) ==
    [u EXCEPT !.maps = EmptyMap, !.sys = <<>>, !.cached = {}, !.vmas = <<>>]

\* amdgpu_plugin_fini: maps_free of both maps, topology_free of both
\* topologies (the nodes and the handles cached in them are forgotten)
amdgpu_plugin_fini(u) ==
    [u EXCEPT !.maps = EmptyMap, !.sys = <<>>, !.cached = {}]

\* one hook call of a restoring process.  The state that outlives a call:
\* restore_maps (maps), dest_topology (sys) with the render device handles
\* cached in its nodes (cached), update_vma_info_list (vmas).  Ghosts:
\* given = handles returned to CRIU, closed = handles the plugin closed,
\* vmas0 = the list before the call, answers = update-vma-map queries
\* answered since the last primary restore call, hist = the calls made
HookCall ==
    /\ unit.op = "hooks"
    /\ unit.n < MaxHookCalls
    /\ LET Called(hook, result) ==
               [unit EXCEPT !.n = @ + 1, !.vmas0 = unit.vmas,
                            !.hist = Append(@, hook), !.ret = result]
           \* identical GPUs: every property the matcher can compare is equal
           node(id, g) ==
               GpuNode(id, 1, RenderMinor(g)) @@
               [sdma_fw_version |-> 1, caches_count |-> 1, num_gws |-> 1,
                vram_size |-> 1, numa |-> 1]
           local == <<CpuNode>> \o
                    [g \in 1..MaxDestGpus |-> node(LocalGpuId(g), g)]
           image == <<CpuNode>> \o
                    [g \in 1..MaxDestGpus |-> node(UserGpuId(g), g)]
           \* sys_close_drm_render_devices(&dest_topology) at the exit label
           bulk_close(v) ==
               [v EXCEPT !.cached = {},
                         !.closed = @ \cup {c.fd : c \in unit.cached}]
           \* the buffers of the image and the buckets restore_bos built
           bos == <<[alloc_flags |-> {"VRAM"}, addr |-> 101, offset |-> 201],
                    [alloc_flags |-> {"USERPTR"}, addr |-> 102, offset |-> 202],
                    [alloc_flags |-> {"DOORBELL"}, addr |-> 103, offset |-> 203]>>
           bucket(j) == [gpu_id |-> LocalGpuId(1),
                         restored_offset |-> 50 + 10 * unit.n + j]
           appended[j \in 0..Len(bos)] ==
               IF j = 0 THEN <<>>
               ELSE appended[j - 1] \o vma_metadata(bos[j], bucket(j), local)
       IN \/ \* amdgpu_plugin_restore_file, primary path
             \E out \in {"early", "topology", "stage", "bos", "late", "ok"},
                j \in {j \in 1..Len(bos) : vma_metadata(bos[j], bucket(j), local) # <<>>} :
                LET r == CASE out = "early" -> -1
                           [] out = "bos" -> -12
                           [] out = "ok" -> KfdFd
                           [] OTHER -> -22
                    v == [Called("restore", r) EXCEPT !.answers = <<>>]
                    m == set_restore_gpu_maps(image, local, {}).maps
                IN unit' =
                     CASE out = "early" -> v
                       [] out = "topology" -> bulk_close(v)
                       [] out = "stage" ->
                            bulk_close([v EXCEPT !.sys = local, !.maps = m])
                       [] out = "bos" ->
                            bulk_close([v EXCEPT !.sys = local, !.maps = m,
                                                 !.vmas = @ \o appended[j - 1]])
                       [] OTHER ->
                            bulk_close([v EXCEPT !.sys = local, !.maps = m,
                                                 !.vmas = @ \o appended[Len(bos)]])
          \/ \* amdgpu_plugin_restore_file, render-node branch
             \E out \in {"ok", "read_fail"}, gpu_id \in {UserGpuId(1)},
                opens \in BOOLEAN :
                LET target_gpu_id == maps_get_dest_gpu(unit.maps, gpu_id)
                    tp_node == IF target_gpu_id = 0 THEN <<>>
                               ELSE sys_get_node_by_gpu_id(unit.sys, target_gpu_id)
                    hit == {c \in unit.cached : c.gpu_id = target_gpu_id}
                    fd == IF tp_node = <<>> THEN -19
                          ELSE IF hit # {} THEN (CHOOSE c \in hit : TRUE).fd
                          ELSE IF opens THEN unit.next_fd
                          ELSE -77
                IN unit' =
                     IF out # "ok" THEN Called("render", -1)
                     ELSE IF fd < 0 THEN Called("render", fd)
                     ELSE [Called("render", fd) EXCEPT
                             !.given = @ \cup {fd},
                             !.cached = @ \cup {[gpu_id |-> target_gpu_id,
                                                 fd |-> fd]},
                             !.next_fd = IF hit = {} THEN @ + 1 ELSE @]
          \/ \* amdgpu_plugin_update_vmamap
             \E path \in {<<"/", "dev", "/", "kfd">>,
                           <<"/", "/", "dev", "/", "dri", "/", "renderD", "129">>},
                at \in {1, 2} :
                LET r == amdgpu_plugin_update_vmamap(unit.vmas, path,
                                                     <<"untouched">>, 100 + at,
                                                     200 + at, 99)
                IN unit' = [Called("vmamap", r.ret) EXCEPT
                              !.answers = Append(@, [path |-> path, at |-> at,
                                                     r |-> r])]
          \/ \* amdgpu_plugin_resume_devices_late: opens /dev/kfd, issues the
             \* resume request and closes the handle it opened
             \E r \in {0, -1} : unit' = Called("resume", r)
          \/ unit' = amdgpu_plugin_fini(Called("fini", 0))
    /\ UNCHANGED mainVars

UnitInputs ==
    LET \* links of a node: type, node id of the other end, validity as
        \* topology_determine_iolinks left it
        Link(t, to, v) == [type |-> t, node_to_id |-> to, valid |-> v]
        LinkLists == {<<>>,
                      <<Link(2, 1, FALSE)>>,
                      <<Link(11, 1, FALSE), Link(2, 0, TRUE)>>,
                      <<Link(2, 1, TRUE), Link(11, 2, FALSE), Link(11, 2, TRUE)>>}
        NumValid(ls) == Len(SelectSeq(ls, LAMBDA l : l.valid))
        \* a checkpoint topology of n GPUs with the CPU node at position cpu
        Topology(n, cpu, cores, apu, ls) ==
           [i \in 1..(n + 1) |->
               LET g == IF i < cpu THEN i ELSE i - 1 IN
               [id |-> i - 1,
                gpu_id |-> IF i = cpu THEN 0 ELSE LocalGpuId(g),
                cpu_cores_count |-> IF i = cpu THEN cores
                                    ELSE IF g = 1 THEN apu ELSE 0,
                simd_count |-> IF i = cpu THEN 0 ELSE 4 * g,
                drm_render_minor |-> IF i = cpu THEN 0 ELSE RenderMinor(g),
                fw_version |-> IF i = cpu THEN 0 ELSE 1,
                iolinks |-> ls[i],
                num_valid_iolinks |-> NumValid(ls[i])]]
        \* the device buckets of the driver: one per GPU of the topology,
        \* one fewer, or one more
        DeviceInputs ==
           UNION {{[op |-> "devinfo", phase |-> "input",
                    sys |-> Topology(n, cpu, cores, apu, ls),
                    buckets |-> DeviceBuckets(d, 1..d),
                    num_of_gpus |-> 0, num_of_cpus |-> 0,
                    device_entries |-> <<>>, ret |-> 0, src_topology |-> <<>>,
                    bucket_index |-> 0, overrun |-> FALSE] :
                     cpu \in 1..(n + 1), cores \in {0, 4}, apu \in {0, 2},
                     ls \in {[i \in 1..(n + 1) |->
                                 IF i = 1 THEN a ELSE IF i = 2 THEN b ELSE c] :
                              a \in LinkLists, b \in LinkLists,
                              c \in {<<>>, <<Link(2, 1, FALSE)>>}},
                     d \in (n - 1)..(n + 1)} :
                  n \in 1..MaxGpus}
    IN PacketInputs \cup RoundTripInputs \cup ImageInputs \cup RecordInputs
        \cup MapInputs \cup TranslateInputs \cup MatchInputs
        \cup InitInputs \cup VmaInputs
        \cup RestoreBucketInputs
        \cup DeviceInputs
        \cup {[op |-> "hooks", n |-> 0, hist |-> <<>>, ret |-> 0,
                maps |-> EmptyMap, sys |-> <<>>, cached |-> {}, next_fd |-> 7,
                given |-> {}, closed |-> {}, vmas0 |-> <<>>, vmas |-> <<>>,
                answers |-> <<>>]}

UnitInit == Standstill /\ unit \in UnitInputs

UnitNext ==
    \/ SdmaPacket
    \/ DrainBuffer \/ FillBuffer
    \/ WriteImage \/ ReadImage
    \/ FillRecord \/ PackRecord \/ UnpackRecord
    \/ AddEntry \/ LookupId
    \/ TranslateNext
    \/ MatchGpus
    \/ PluginInit
    \/ UpdateVmaMap
    \/ RestoreBuckets
    \/ HookCall
    \/ DeviceRoundTrip

UnitSpec == UnitInit /\ [][UnitNext]_vars

C16_RoundTripKeepsContent ==
    (unit.op = "roundtrip" /\ unit.phase = "done") =>
        unit.restored = unit.vram

\* C17: whatever dump calls wrote the image under one id, and whatever file
\* of that name existed before, the bytes restore reads (the whole file) are
\* the bytes the last successful dump encoded
C17_RestoreReadsLastDump ==
    (unit.op = "image" /\ unit.phase = "read" /\ unit.last # <<>>) =>
        unit.read = unit.last

C19_LookupByUserIdReturnsActualId ==
    (unit.op = "map" /\ unit.phase = "looked") =>
        /\ (unit.last # <<>> /\ unit.key = unit.last.user_gpu_id) =>
              unit.got = unit.last.actual_gpu_id
        /\ unit.key \notin unit.keys => unit.got = 0

\* C19 as amended: after an entry (actual id, user id) is added, looking up
\* the actual id returns the user id, and an id never added as a key
\* returns 0
C19_LookupReturnsMappedId ==
    (unit.op = "map" /\ unit.phase = "looked") =>
        /\ (unit.last # <<>> /\ unit.key = unit.last.actual_gpu_id) =>
              unit.got = unit.last.user_gpu_id
        /\ unit.key \notin unit.keys => unit.got = 0

\* the id added last was looked up and gave the other id of its entry
C19_Witness ==
    /\ unit.op = "map"
    /\ unit.phase = "looked"
    /\ unit.last # <<>>
    /\ unit.key = unit.last.actual_gpu_id
    /\ unit.last.actual_gpu_id # unit.last.user_gpu_id
    /\ unit.got = unit.last.user_gpu_id

\* C20: a translation that yields 0 makes the routine leave with an error;
\* every gpu id a routine stores (dump) or hands to the driver (restore) is
\* the non-zero translation of the id it came from, except that an event
\* without gpu id keeps 0; a routine that ends without error has gone
\* through all its records
C20_ZeroTranslationAborts ==
    unit.op = "translate" =>
        /\ \A j \in 1..Len(unit.out) :
              \/ /\ unit.out[j].gpu_id # 0
                 /\ unit.out[j].from \in DOMAIN unit.maps
                 /\ unit.out[j].gpu_id = unit.maps[unit.out[j].from]
              \/ /\ unit.kind = "event"
                 /\ unit.out[j].from = 0
                 /\ unit.out[j].gpu_id = 0
        /\ \A j \in 1..unit.i :
              \/ unit.ids[j] \in DOMAIN unit.maps
              \/ unit.ids[j] = 0 /\ unit.kind \in {"device", "event"}
        /\ unit.phase = "aborted" =>
              /\ unit.ret < 0
              /\ unit.ids[unit.i + 1] \notin DOMAIN unit.maps
        /\ unit.phase = "done" =>
              /\ unit.ret = 0
              /\ unit.i = Len(unit.ids)

\* a routine stopped at the second record, whose id the map does not hold,
\* after it had translated the first
C20_Witness ==
    /\ unit.op = "translate"
    /\ unit.phase = "aborted"
    /\ unit.ret < 0
    /\ unit.i = 1
    /\ Len(unit.out) = 1
    /\ unit.out[1].gpu_id # 0

\* C21: when the matcher succeeds the restore map assigns every checkpoint
\* GPU to a destination GPU of its own, and every assigned pair satisfies
\* each enabled predicate; with all six predicates disabled the i-th
\* checkpoint GPU gets the i-th destination GPU; when the matcher fails
\* the map is empty
C21_MatcherAllOrNothing ==
    (unit.op = "match" /\ unit.phase = "done") =>
       LET src == unit.src
           dest == unit.dest
           on(c) == c \in unit.checks
           destOf(i) == CHOOSE j \in 1..Len(dest) :
                           dest[j].gpu_id = unit.maps[src[i].gpu_id]
       IN /\ unit.ret \in {0, -19}
          /\ unit.ret # 0 => unit.maps = EmptyMap
          /\ unit.ret = 0 =>
                /\ DOMAIN unit.maps = {src[i].gpu_id : i \in 1..Len(src)}
                /\ \A i \in 1..Len(src) :
                      \E j \in 1..Len(dest) :
                         dest[j].gpu_id = unit.maps[src[i].gpu_id]
                /\ \A i, j \in 1..Len(src) :
                      i # j => unit.maps[src[i].gpu_id] # unit.maps[src[j].gpu_id]
                /\ \A i \in 1..Len(src) :
                      LET s == src[i]
                          d == dest[destOf(i)]
                      IN /\ on("fw_version") => s.fw_version = d.fw_version
                         /\ on("sdma_fw_version") =>
                               s.sdma_fw_version = d.sdma_fw_version
                         /\ on("caches_count") => s.caches_count = d.caches_count
                         /\ on("num_gws") => s.num_gws = d.num_gws
                         /\ on("vram_size") => s.vram_size <= d.vram_size
                         /\ on("numa") => s.numa = d.numa
          /\ unit.checks = {} =>
                /\ unit.ret = 0 <=> Len(src) <= Len(dest)
                /\ unit.ret = 0 =>
                      \A i \in 1..Len(src) :
                         unit.maps[src[i].gpu_id] = dest[i].gpu_id

\* two checkpoint GPUs matched with every predicate disabled onto
\* destination GPUs that differ from them in an enforced-by-default property
C21_Witness ==
    /\ unit.op = "match" /\ unit.phase = "done"
    /\ unit.checks = {} /\ unit.ret = 0
    /\ Len(unit.src) = 2
    /\ unit.src[1].fw_version # unit.dest[1].fw_version
    /\ unit.src[2].vram_size > unit.dest[2].vram_size

\* C22: after plugin initialisation at the restore stage a toggle is false
\* exactly when its environment variable is set to "0" or to "NO" in any
\* letter case, and true otherwise; initialisation at another stage leaves
\* the six toggles as they were
C22_TogglesFollowEnvironment ==
    (unit.op = "init" /\ unit.phase = "done") =>
       LET NoSpellings == {<<a, b>> : a \in {"N", "n"}, b \in {"O", "o"}}
           disabled(c) ==
              /\ EnvVarOf(c) \in DOMAIN unit.env
              /\ unit.env[EnvVarOf(c)] \in {<<"0">>} \cup NoSpellings
       IN IF unit.stage = "RESTORE"
          THEN \A c \in CheckNames : unit.toggles[c] = ~disabled(c)
          ELSE unit.toggles = unit.before

\* a restore-stage initialisation in which a toggle that was off is read
\* from a mixed-case "No" and another from an unrecognised value
C22_Witness ==
    /\ unit.op = "init" /\ unit.phase = "done" /\ unit.stage = "RESTORE"
    /\ \E c, d \in CheckNames :
          /\ EnvVarOf(c) \in DOMAIN unit.env
          /\ unit.env[EnvVarOf(c)] = <<"N", "o">>
          /\ ~unit.toggles[c]
          /\ EnvVarOf(d) \in DOMAIN unit.env
          /\ unit.env[EnvVarOf(d)] = <<"O", "N">>
          /\ ~unit.before[d] /\ unit.toggles[d]

\* C23: a dump call for a render-device file issues no driver request,
\* neither pauses nor unpauses the process, starts no worker and opens no
\* render device; all it writes is one render-node image that holds the
\* user-visible gpu id of the device with the file's render minor; when the
\* minor is unknown to the topology or the device has no checkpoint-map entry
\* the call fails with -ENODEV and writes nothing
C23_RenderDumpOnlyWritesImage ==
    scn.mode = "dump_render" =>
       LET nodes == {i \in 1..Len(scn.topo) :
                        /\ scn.topo[i].gpu_id # 0
                        /\ scn.topo[i].drm_render_minor = scn.minor}
           entries == {j \in 1..Len(scn.devs) :
                          /\ scn.primary
                          /\ \E i \in nodes :
                                scn.devs[j].actual_gpu_id = scn.topo[i].gpu_id}
       IN /\ ioctls = <<>> /\ thr = <<>> /\ drm_open = {} /\ held = {}
          /\ \A i \in 1..Len(log) : log[i] \notin {"pause", "unpause", "spawn"}
          /\ Len(images) <= 1
          /\ \A i \in 1..Len(images) :
                /\ images[i].name = "renderDXXX"
                /\ \E j \in entries : images[i].gpu_id = scn.devs[j].user_gpu_id
          /\ (pc = "done" /\ retval = 0) => (Len(images) = 1 /\ images[1].complete)
          /\ (pc = "done" /\ entries = {}) =>
                (images = <<>> /\ retval \in {-19, -1})

\* a render-device dump that wrote its image, and the second GPU's minor
C23_Witness ==
    /\ scn.mode = "dump_render" /\ pc = "done" /\ retval = 0
    /\ scn.minor = RenderMinor(2)
    /\ images = <<[name |-> "renderDXXX", gpu_id |-> UserGpuId(2),
                   complete |-> TRUE]>>

\* C24: the restore of a render-node image returns the render device handle
\* of the local GPU that the restore map gives for the stored gpu id, and
\* -ENODEV when the map has no entry for it; a render-node restore that runs
\* before the restore of the control device built the map fails; no
\* render-node restore issues a driver request
C24_RenderRestoreUsesMap ==
    (scn.mode = "restore_render" /\ pc = "done") =>
       LET decoded == log = <<"read">>
           target == IF scn.gpu_id \in DOMAIN restore_maps
                     THEN restore_maps[scn.gpu_id] ELSE 0
           handle == 100 + target
       IN /\ ioctls = <<>> /\ thr = <<>> /\ images = <<>>
          /\ retval >= 0 =>
                /\ decoded /\ target # 0 /\ retval = handle
                /\ \E j \in 1..Len(scn.topo) : scn.topo[j].gpu_id = target
                /\ drm_open = {target}
          /\ (decoded /\ target = 0) => retval = -19
          /\ (decoded /\ target # 0) => retval \in {handle, -77}
          /\ ~scn.primary => (retval < 0 /\ (decoded => retval = -19))

\* a render-node restore after the primary restore that returned the handle
\* of the second local GPU
C24_Witness ==
    /\ scn.mode = "restore_render" /\ pc = "done"
    /\ scn.primary
    /\ scn.gpu_id = UserGpuId(2)
    /\ retval = 100 + LocalGpuId(2)

\* C25: the VMA hook returns 1 exactly when the old path, its repeated
\* slashes dropped, is the control device or a render device and a pending
\* entry has the asked address and old offset; it then takes the earliest
\* such entry: the new offset is the entry's restored offset, the new path is
\* the render device of the entry's new minor for a render path and the old
\* path as given for the control device; otherwise it returns 0 and leaves
\* new path and new offset as they were
C25_VmaHookUsesEarliestEntry ==
    (unit.op = "vmamap" /\ unit.phase = "done") =>
       LET matches == {j \in 1..Len(unit.vmas) :
                          /\ unit.vmas[j].vma_entry = unit.addr
                          /\ unit.vmas[j].old_pgoff = unit.old_offset}
           first == CHOOSE j \in matches : \A h \in matches : j <= h
           digits == IF unit.vmas[first].new_minor = RenderMinor(1)
                     THEN "128" ELSE "129"
       IN IF unit.old.kind # "other" /\ matches # {}
          THEN /\ unit.ret = 1
               /\ unit.new_offset = unit.vmas[first].new_pgoff
               /\ unit.new_path =
                     IF unit.old.kind = "kfd" THEN unit.old.path
                     ELSE <<"/", "dev", "/", "dri", "/", "renderD", digits>>
          ELSE /\ unit.ret = 0
               /\ unit.new_path = <<"untouched">>
               /\ unit.new_offset = 99

\* a render path with doubled slashes answered from the first of two
\* entries that both fit and that name different devices
C25_Witness ==
    /\ unit.op = "vmamap" /\ unit.phase = "done" /\ unit.ret = 1
    /\ unit.old.path = <<"/", "/", "dev", "/", "dri", "/", "/", "renderD", "129">>
    /\ Len(unit.vmas) = 2
    /\ \A j \in 1..2 : unit.vmas[j].vma_entry = unit.addr
                        /\ unit.vmas[j].old_pgoff = unit.old_offset
    /\ unit.vmas[1].new_minor = RenderMinor(1)
    /\ unit.vmas[2].new_minor = RenderMinor(2)
    /\ unit.new_path = <<"/", "dev", "/", "dri", "/", "renderD", "128">>

\* C26: after a successful restore_bos the pending-VMA list is what it was
\* before followed, in buffer order, by one entry for each restored buffer
\* whose flags include VRAM, GTT, MMIO_REMAP or DOORBELL and by nothing
\* else; an entry holds the buffer's offset and address at checkpoint, the
\* restored offset the driver returned for it, and the render minor of the
\* destination GPU the restore map gives for the buffer's gpu id
C26_PendingVmaEntries ==
    (unit.op = "buckets" /\ unit.kind = "bo" /\ unit.phase = "done") =>
       LET e == unit.entries
           idx == SelectSeq([i \in 1..Len(e) |-> i],
                            LAMBDA i : e[i].alloc_flags \cap
                                          {"VRAM", "GTT", "MMIO_REMAP",
                                           "DOORBELL"} # {})
           minor(i) == (CHOOSE n \in {unit.sys[h] : h \in 1..Len(unit.sys)} :
                           n.gpu_id = unit.maps[e[i].gpu_id]).drm_render_minor
       IN /\ Len(unit.buckets) = Len(e)
          /\ unit.vmas = unit.vmas0 \o
                [j \in 1..Len(idx) |->
                    [old_pgoff |-> e[idx[j]].offset,
                     vma_entry |-> e[idx[j]].addr,
                     new_pgoff |-> unit.buckets[idx[j]].restored_offset,
                     new_minor |-> minor(idx[j])]]

\* a list that held an entry and gained one for an MMIO_REMAP buffer and
\* none for the user-pointer buffer before it
C26_Witness ==
    /\ unit.op = "buckets" /\ unit.kind = "bo" /\ unit.phase = "done"
    /\ Len(unit.entries) = 2
    /\ unit.entries[1].alloc_flags = {"USERPTR"}
    /\ unit.entries[2].alloc_flags = {"MMIO_REMAP"}
    /\ Len(unit.vmas0) = 1 /\ Len(unit.vmas) = 2
    /\ unit.vmas[2].new_pgoff = 62

C28_ScratchAndImageReleased ==
    /\ held \subseteq {"kfd fd", "image buf"}
    /\ (scn.mode = "restore" /\ pc = "done") =>
          /\ "image buf" \notin held
          /\ retval < 0 => "kfd fd" \notin held

\* C29: a primary dump or restore call returns with every cached render
\* device handle closed, and it closes the handles only when no transfer
\* worker that uses one of them is still running
C29_HandlesClosedAfterWorkers ==
    [][/\ (scn.mode \in {"dump", "restore"} /\ pc' = "done") => drm_open' = {}
       /\ (drm_open # {} /\ drm_open' = {}) =>
             \A w \in DOMAIN thr :
                WorkerActive(w) => thr[w].gpu_id \notin drm_open]_vars

\* C30: a primary restore call that returns the control-device handle has
\* performed, in this order and nothing else: read and decode the image,
\* rebuild the checkpoint topology, parse the local topology, build the
\* restore map, restore process, restore devices, restore buffers (driver
\* request, pending-VMA entries, spawn every worker, join every worker),
\* restore queues, restore events, restore the shared-memory file, close the
\* render devices; the queue and event stages issue a driver request only
\* when the image holds queues or events
C30_RestoreOrder ==
    LET workers == [w \in 1..num_of_gpus |-> "spawn"] \o
                   [w \in 1..num_of_gpus |-> "join"]
        issued(name) == \E i \in 1..Len(ioctls) : ioctls[i] = name
    IN scn.mode = "restore" =>
          /\ scn.num_of_queues = 0 => ~issued("restore_queues")
          /\ scn.num_of_events = 0 => ~issued("restore_events")
          /\ (pc = "done" /\ retval = KfdFd) =>
                /\ log = <<"read", "src_topology", "dest_topology", "map",
                           "process", "devices", "bos", "vma">> \o workers \o
                         <<"queues", "events", "shm", "close">>
                /\ \A w \in DOMAIN thr : thr[w].st = "joined"
                /\ scn.num_of_queues > 0 => issued("restore_queues")
                /\ scn.num_of_events > 0 => issued("restore_events")

\* C31: when every worker was spawned, dump_bos / restore_bos return 0
\* exactly when every worker's result code is 0 and otherwise the result
\* code of the lowest-index failing worker; and a worker that has returned
\* has a non-zero result code exactly when its device initialisation, its
\* opening of the process memory file, or the fallback strategy of one of
\* its buffers failed
C31_WorkerResultsDecide ==
    LET spawned == /\ Len(thr) = num_of_gpus
                   /\ \A w \in DOMAIN thr : thr[w].st # "unspawned"
        returned == {w \in DOMAIN thr : thr[w].st \in {"finished", "joined"}}
        strategyFailed(w) ==
            \E i \in DOMAIN xfer : \E j \in 1..Len(xfer[i]) :
                xfer[i][j].w = w /\ ~xfer[i][j].ok
    IN /\ \A n \in 1..Len(stageRet) :
             (stageRet[n].stage = "bos" /\ spawned) =>
                IF stageRet[n].ret = 0
                THEN \A w \in DOMAIN thr : thr[w].st = "joined" /\ thr[w].ret = 0
                ELSE \E w \in DOMAIN thr :
                        /\ thr[w].st = "joined"
                        /\ thr[w].ret = stageRet[n].ret
                        /\ \A v \in 1..(w - 1) :
                              thr[v].st = "joined" /\ thr[v].ret = 0
       /\ \A w \in returned :
             thr[w].ret # 0 <=>
                \/ thr[w].h_dev = "deinit_unset"
                \/ thr[w].ret \in {-1, -13}
                \/ strategyFailed(w)

\* C36: a transfer worker deinitialises a driver device context only if its
\* own device initialisation succeeded earlier in the same run; when the
\* initialisation fails the worker reports failure without using the
\* device context
C36_DeinitOnlyAfterInit ==
    \A w \in DOMAIN thr : thr[w].h_dev # "deinit_unset"

\* C32: no hook removes an entry from the pending-VMA list: every call
\* leaves the list it found as a prefix of the list it leaves, only a
\* primary restore call changes it (also one that fails after appending),
\* and two identical update-vma-map queries with no restore call in between
\* get the same answer
C32_PendingVmaListOnlyGrows ==
    unit.op = "hooks" =>
       /\ Len(unit.vmas0) <= Len(unit.vmas)
       /\ SubSeq(unit.vmas, 1, Len(unit.vmas0)) = unit.vmas0
       /\ (unit.hist # <<>> /\ unit.hist[Len(unit.hist)] # "restore") =>
             unit.vmas = unit.vmas0
       /\ \A a, b \in 1..Len(unit.answers) :
             (/\ unit.answers[a].path = unit.answers[b].path
              /\ unit.answers[a].at = unit.answers[b].at)
             => unit.answers[a].r = unit.answers[b].r

\* a restore call failed after appending one entry, fini ran, and the same
\* query was then answered twice from the entry that is still there
C32_Witness ==
    /\ unit.op = "hooks"
    /\ unit.hist = <<"restore", "fini", "vmamap", "vmamap">>
    /\ Len(unit.vmas) = 1
    /\ unit.answers[1] = unit.answers[2]
    /\ unit.answers[1].r.ret = 1

\* C38: a render device handle that the render-node restore hook returned
\* to CRIU is never closed by the plugin afterwards, whatever hooks are
\* called later
C38_GivenHandleNeverClosed ==
    unit.op = "hooks" => unit.given \cap unit.closed = {}

\* C33: converting a validated checkpoint topology to device records and
\* the records back gives one node per original node in the same order; a
\* GPU node keeps its node id and the copied properties and carries the
\* user-visible gpu id, a CPU node keeps its node id and core count with
\* gpu id 0, and the links of each node are exactly its links marked
\* valid, in order, with the same type and target node id
C33_TopologyRoundTrip ==
    (unit.op = "devinfo" /\ unit.phase = "restored") =>
       LET maps == AddDeviceBuckets(EmptyMap, unit.buckets)
           back == unit.src_topology
       IN /\ Len(back) = Len(unit.sys)
          /\ \A i \in 1..Len(unit.sys) :
                LET node == unit.sys[i]
                    valid == SelectSeq(node.iolinks, LAMBDA l : l.valid)
                IN /\ back[i].id = node.id
                   /\ NODE_IS_GPU(node) =>
                         /\ back[i].gpu_id # 0
                         /\ back[i].gpu_id = maps_get_dest_gpu(maps, node.gpu_id)
                         /\ back[i].simd_count = node.simd_count
                         /\ back[i].drm_render_minor = node.drm_render_minor
                         /\ back[i].fw_version = node.fw_version
                   /\ ~NODE_IS_GPU(node) =>
                         /\ back[i].gpu_id = 0
                         /\ back[i].cpu_cores_count = node.cpu_cores_count
                   /\ Len(back[i].iolinks) = Len(valid)
                   /\ \A j \in 1..Len(valid) :
                         /\ back[i].iolinks[j].type = valid[j].type
                         /\ back[i].iolinks[j].node_to_id = valid[j].node_to_id

\* a topology of a CPU without core count between two GPUs, the first with
\* CPU cores of its own, went through both conversions; one node has valid
\* and invalid links, one only an invalid link
C33_Witness ==
    /\ unit.op = "devinfo" /\ unit.phase = "restored"
    /\ Len(unit.sys) = 3
    /\ unit.sys[2].gpu_id = 0 /\ unit.sys[2].cpu_cores_count = 0
    /\ unit.sys[1].cpu_cores_count = 2
    /\ Len(unit.sys[1].iolinks) = 3 /\ Len(unit.src_topology[1].iolinks) = 2
    /\ Len(unit.sys[3].iolinks) = 1 /\ unit.src_topology[3].iolinks = <<>>

\* C34: in every image of a successful dump the number of device records
\* is num_of_gpus + num_of_cpus and the number of records with a gpu id is
\* num_of_gpus, so that restore_devices fills exactly the num_of_gpus
\* buckets it allocated and never writes past them
C34_DeviceRecordCounts ==
    (unit.op = "devinfo" /\ unit.phase # "input" /\ unit.ret = 0) =>
       /\ Len(unit.device_entries) = unit.num_of_gpus + unit.num_of_cpus
       /\ Cardinality({i \in 1..Len(unit.device_entries) :
                          unit.device_entries[i].gpu_id # 0}) = unit.num_of_gpus
       /\ unit.phase = "restored" =>
             /\ unit.bucket_index = unit.num_of_gpus
             /\ ~unit.overrun

\* the records of a two-GPU dump were restored into two device buckets
C34_Witness ==
    /\ unit.op = "devinfo" /\ unit.phase = "restored"
    /\ unit.num_of_gpus = 2 /\ unit.num_of_cpus = 1
    /\ unit.bucket_index = 2

\* C35: for every buffer size and GPU family the dwords the DMA path has
\* written into the command buffer (7 per copy packet, then NOPs up to a
\* multiple of 8 dwords) stay within the size requested for it, namely
\* n_packets * 28 bytes with n_packets = (size + max) / max
C35_CommandBufferFits ==
    unit.op = "sdma_packets" => 4 * unit.j <= 28 * unit.n_packets

\* C37: free_e is only invoked on an aggregate that was allocated: whenever
\* the primary dump call has gone through its exit label (unpause, close,
\* free_e), the process-info stage had allocated the aggregate before, and
\* the call has returned a status to the orchestrator; this includes the
\* path on which the initial pause request fails
C37_TeardownOnlyAfterAllocation ==
    (/\ scn.mode = "dump"
     /\ \E i \in 1..Len(log) : log[i] = "close")
    => /\ pc = "done"
       /\ \E n \in 1..Len(stageRet) : stageRet[n] = [stage |-> "info", ret |-> 0]

====
